---- MODULE Spec2Model ----
(***************************************************************************)
(* Verification model of volume-inspector (src/src/main.rs): the scanner   *)
(* and small-file aggregator (build_tree), the slice-and-dice layout       *)
(* engine (layout_tree) and the navigation state of the interactive loop   *)
(* (struct App and the event loop of main), the terminal set-up and        *)
(* tear-down of main, the progress thread and the color cache.             *)
(*                                                                         *)
(* The specifications share the variables below:                           *)
(*   SpecScan      build_tree applied to a bounded family of file systems  *)
(*   SpecLayout    layout_tree applied to a bounded family of nodes/rects  *)
(*   SpecNav       the event loop of main over a scanned tree              *)
(*   SpecEvents    the same loop, every step kept with the App it found    *)
(*   SpecScroll    one key event, met with any scroll offsets              *)
(*   SpecCanvas    dynamic_size of recalculate_layout                      *)
(*   SpecMain      main from enable_raw_mode to its return                 *)
(*   SpecProgress  main and the progress thread up to the join (fair)      *)
(*   SpecColor     calls of color_for_extension                            *)
(*   SpecDraw      ui drawing the cached layout of a scrolled view         *)
(***************************************************************************)
EXTENDS Integers, Sequences, FiniteSets, TLC

VARIABLES
    pc,          \* position of the modelled routine
    fs,          \* SpecScan: the directory handed to build_tree
    ignore_os5,  \* SpecScan: Args.ignoreos5
    scan,        \* SpecScan: what build_tree returned
    lnode,       \* SpecLayout: the node handed to layout_tree
    larea,       \* SpecLayout: the rectangle handed to layout_tree
    lhoriz,      \* SpecLayout: the orientation handed to layout_tree
    lout,        \* SpecLayout: what layout_tree returned
    ltop,        \* SpecLayout: integer_sizes and the placements of its outermost call
    app,         \* SpecNav: struct App
    term,        \* SpecNav: the terminal area of the current frame
    nav_act,     \* SpecNav: the last event, if it was an activation that changed current_dir
    nav_up,      \* SpecNav: the activation that the last event, a navigate-up, followed
    ev,          \* SpecEvents, SpecScroll: the step of the loop taken last
    was,         \* SpecEvents, SpecScroll: struct App as that step found it
    canvas,      \* SpecCanvas: the children count, the build and dynamic_size
    tty,         \* SpecMain: raw mode, alternate screen, mouse capture, failed call
    screen,      \* SpecDraw: the rectangle ui rendered for each pair of the layout
    done,        \* SpecProgress: the AtomicBool done
    scanned_files, \* SpecProgress: SCANNED_FILES
    reporter,    \* SpecProgress: the progress thread
    seahash,     \* SpecColor: the hash function
    color_cache, \* SpecColor: COLOR_CACHE
    lookups      \* SpecColor: the calls of color_for_extension so far

vars == <<pc, fs, ignore_os5, scan, lnode, larea, lhoriz, lout, ltop,
          app, term, nav_act, nav_up, ev, was, canvas, tty, screen,
          done, scanned_files, reporter, seahash, color_cache, lookups>>

scan_vars == <<fs, ignore_os5, scan>>

layout_vars == <<lnode, larea, lhoriz, lout, ltop>>

nav_vars == <<app, term, nav_act, nav_up>>

hist_vars == <<ev, was>>

\* The variables of the specifications of single routines.
progress_vars == <<done, scanned_files, reporter>>

color_vars == <<seahash, color_cache, lookups>>

aux_vars == <<canvas, tty, screen, progress_vars, color_vars>>

(***************************************************************************)
(* Small helpers on integers and sequences.                                *)
(***************************************************************************)
Max(a, b) == IF a >= b THEN a ELSE b

Min(a, b) == IF a <= b THEN a ELSE b

\* Sum of s[lo..hi], halving the range so that the recursion stays shallow.
RECURSIVE SumRange(_, _, _)
SumRange(s, lo, hi) ==
    IF lo > hi THEN 0
    ELSE IF lo = hi THEN s[lo]
    ELSE LET mid == (lo + hi) \div 2
         IN SumRange(s, lo, mid) + SumRange(s, mid + 1, hi)

SumSeq(s) == SumRange(s, 1, Len(s))

(***************************************************************************)
(* IEEE-754 binary64 arithmetic, as far as layout_tree uses it.            *)
(*                                                                         *)
(* layout_tree computes each share as                                      *)
(*     (c.size as f64 / total) * primary_dim                               *)
(* which rounds twice (after the division and after the multiplication),   *)
(* then takes floor() and fract() of the rounded product.  A positive      *)
(* double is modelled as [e, m]: m is its 53-bit significand, most         *)
(* significant bit first (m[1] = 1), and e the binary exponent of m[1], so *)
(* the value is the sum of m[i] * 2^(e - i + 1).  Integers in the model    *)
(* stay below 2^31: the operands are small (sizes below 2^18, dimensions   *)
(* below 2^16) and the significand is handled in 13-bit chunks.            *)
(***************************************************************************)
MantBits == 53

ChunkBase == 2 ^ 13

\* Bit j (0 = least significant) of the natural number n.
Bit(n, j) == (n \div (2 ^ j)) % 2

\* The natural number whose binary digits are bits (most significant first).
RECURSIVE BitsToInt(_)
BitsToInt(bits) ==
    IF Len(bits) = 0 THEN 0
    ELSE 2 * BitsToInt(SubSeq(bits, 1, Len(bits) - 1)) + bits[Len(bits)]

\* The binary digits of n, most significant first, without leading zeros.
BitLen(n) == IF n = 0 THEN 0 ELSE CHOOSE k \in 1..31 : 2 ^ (k - 1) <= n /\ n < 2 ^ k

IntToBits(n) == [i \in 1..BitLen(n) |-> Bit(n, BitLen(n) - i)]

\* The 13 binary digits of the chunk d, most significant first.
ChunkToBits(d) == [i \in 1..13 |-> Bit(d, 13 - i)]

\* bits + 1 on a significand; a carry out of the top bit lengthens it by one.
Increment(bits) ==
    LET n == Len(bits)
        zeros == {i \in 1..n : bits[i] = 0}
    IN IF zeros = {} THEN [i \in 1..(n + 1) |-> IF i = 1 THEN 1 ELSE 0]
       ELSE LET j == CHOOSE i \in zeros : \A k \in zeros : k <= i
            IN [i \in 1..n |-> IF i < j THEN bits[i] ELSE IF i = j THEN 1 ELSE 0]

\* Round a binary expansion (leading bit 1 of exponent e) to 53 significant
\* bits, to nearest, ties to even: the rounding of every f64 operation.
RoundF64(e, bits) ==
    LET n == Len(bits)
        top == SubSeq(bits, 1, MantBits)
        rb == IF n > MantBits THEN bits[MantBits + 1] ELSE 0
        sticky == \E i \in (MantBits + 2)..n : bits[i] = 1
        up == rb = 1 /\ (sticky \/ top[MantBits] = 1)
        inc == IF up THEN Increment(top) ELSE top
    IN IF Len(inc) > MantBits THEN [e |-> e + 1, m |-> SubSeq(inc, 1, MantBits)]
       ELSE [e |-> e, m |-> inc]

\* Long division r / t (r < t) in base 2^13: n digits and the remainder.
RECURSIVE QuotChunks(_, _, _)
QuotChunks(r, t, n) ==
    IF n = 0 THEN [digits |-> <<>>, rem |-> r]
    ELSE LET rest == QuotChunks((r * ChunkBase) % t, t, n - 1)
         IN [digits |-> <<(r * ChunkBase) \div t>> \o rest.digits, rem |-> rest.rem]

\* x as f64 / t as f64 for integers 1 <= x <= t < 2^18 (both exact as f64).
F64Div(x, t) ==
    LET k == CHOOSE j \in 0..18 : x * (2 ^ j) >= t /\ (j = 0 \/ x * (2 ^ (j - 1)) < t)
        q == QuotChunks(x * (2 ^ k) - t, t, 5)
        tail == IF q.rem # 0 THEN <<1>> ELSE <<>>
    IN RoundF64(-k, <<1>> \o ChunkToBits(q.digits[1]) \o ChunkToBits(q.digits[2])
                     \o ChunkToBits(q.digits[3]) \o ChunkToBits(q.digits[4])
                     \o ChunkToBits(q.digits[5]) \o tail)

\* d * (w as f64) for a double d and an integer 1 <= w < 2^16 (exact as f64):
\* the exact product of the significand by w, chunk by chunk, then rounded.
F64Mul(d, w) ==
    LET chunk(j) == BitsToInt(SubSeq(d.m, 2 + 13 * (j - 1), 1 + 13 * j))
        t4 == chunk(4) * w
        t3 == chunk(3) * w + t4 \div ChunkBase
        t2 == chunk(2) * w + t3 \div ChunkBase
        t1 == chunk(1) * w + t2 \div ChunkBase
        t0 == d.m[1] * w + t1 \div ChunkBase
        p == IntToBits(t0) \o ChunkToBits(t1 % ChunkBase) \o ChunkToBits(t2 % ChunkBase)
             \o ChunkToBits(t3 % ChunkBase) \o ChunkToBits(t4 % ChunkBase)
    IN RoundF64(d.e + (Len(p) - MantBits), p)

\* f64::floor(d) as u16, for 0 < d < 2^16.
F64Floor(d) == IF d.e < 0 THEN 0 ELSE BitsToInt(SubSeq(d.m, 1, d.e + 1))

\* f64::fract(d) = d - trunc(d), which is exact: the binary digits of d after
\* the binary point.
F64Fract(d) ==
    IF d.e < 0 THEN [i \in 1..(-d.e - 1) |-> 0] \o d.m
    ELSE SubSeq(d.m, d.e + 2, MantBits)

\* a < b for two fractional parts (binary digits after the point).
FractLess(a, b) ==
    LET n == Max(Len(a), Len(b))
        da(i) == IF i <= Len(a) THEN a[i] ELSE 0
        db(i) == IF i <= Len(b) THEN b[i] ELSE 0
    IN \E i \in 1..n : da(i) < db(i) /\ \A j \in 1..(i - 1) : da(j) = db(j)

(***************************************************************************)
(* Node and Rect.                                                          *)
(***************************************************************************)
\* struct Node.  A path is the sequence of its components.
Node(name, size, path, children, is_dir) ==
    [name |-> name, size |-> size, path |-> path, children |-> children, is_dir |-> is_dir]

\* ratatui's Rect: u16 coordinates.
Rect(x, y, width, height) == [x |-> x, y |-> y, width |-> width, height |-> height]

U16Max == 2 ^ 16 - 1

\* Rect::right() and Rect::bottom() saturate.
RectRight(r) == Min(r.x + r.width, U16Max)

RectBottom(r) == Min(r.y + r.height, U16Max)

\* u16::saturating_sub.
SatSub(a, b) == IF a >= b THEN a - b ELSE 0

(***************************************************************************)
(* layout_tree.                                                            *)
(***************************************************************************)
\* The children that take part in the layout: those with size > 0.
LayoutChildren(node) == SelectSeq(node.children, LAMBDA c : c.size > 0)

PrimaryDim(area, horizontal) == IF horizontal THEN area.width ELSE area.height

\* sizes: each child's share of the primary dimension, as f64.
Shares(children, total, primary_dim) ==
    [i \in 1..Len(children) |-> F64Mul(F64Div(children[i].size, total), primary_dim)]

\* Stable insertion of index i into the ranking by descending fract: i goes
\* before the first ranked index whose fract is strictly smaller.
RECURSIVE InsertRank(_, _, _)
InsertRank(i, ranked, fr) ==
    IF Len(ranked) = 0 THEN <<i>>
    ELSE IF FractLess(fr[ranked[1]], fr[i]) THEN <<i>> \o ranked
    ELSE <<ranked[1]>> \o InsertRank(i, SubSeq(ranked, 2, Len(ranked)), fr)

RECURSIVE RankFrom(_, _, _)
RankFrom(i, ranked, fr) ==
    IF i > Len(fr) THEN ranked ELSE RankFrom(i + 1, InsertRank(i, ranked, fr), fr)

\* fractional, after sort_by (a stable sort, descending by fract).
FractionalRank(sizes) ==
    RankFrom(1, <<>>, [i \in 1..Len(sizes) |-> F64Fract(sizes[i])])

\* remainder = primary_dim as u16 - allocated, in u16.
Remainder(primary_dim, floors) == (primary_dim - SumSeq(floors)) % (2 ^ 16)

\* integer_sizes after the largest-remainder loop.
IntegerSizes(children, total, primary_dim) ==
    LET sizes == Shares(children, total, primary_dim)
        floors == [i \in 1..Len(sizes) |-> F64Floor(sizes[i])]
        remainder == Remainder(primary_dim, floors)
        fractional == FractionalRank(sizes)
        extra == {fractional[i] : i \in 1..Min(remainder, Len(fractional))}
    IN [i \in 1..Len(sizes) |-> floors[i] + (IF i \in extra THEN 1 ELSE 0)]

\* Mutation: no minimum tile.
MinTileNone(size_primary, primary_dim) == size_primary

\* The minimum-tile rule: a share below 3 cells becomes 3.
MinTile(size_primary, primary_dim) ==
    IF size_primary < 3 /\ primary_dim >= 3 THEN 3 ELSE size_primary

\* Mutation: the cells left are counted from the near edge of area.
AvailableFromStart(area, horizontal, current_pos) ==
    IF horizontal THEN SatSub(RectRight(area), area.x)
    ELSE SatSub(RectBottom(area), area.y)

\* The cells left before the far edge of area.
Available(area, horizontal, current_pos) ==
    IF horizontal THEN SatSub(RectRight(area), current_pos)
    ELSE SatSub(RectBottom(area), current_pos)

ChildRect(area, horizontal, current_pos, size_primary) ==
    IF horizontal THEN Rect(current_pos, area.y, size_primary, area.height)
    ELSE Rect(area.x, current_pos, area.width, size_primary)

\* Mutation: the cap to the cells left is dropped.
Uncapped(size_primary, available) == size_primary

\* if size_primary > available { size_primary = available }
Capped(size_primary, available) == Min(size_primary, available)

\* The placement loop from child i on: the rectangles it hands to the
\* recursive calls, as a sequence of [idx, rect], and the final cursor.
RECURSIVE PlaceFrom(_, _, _, _, _, _)
PlaceFrom(integer_sizes, area, horizontal, i, current_pos, placed) ==
    IF i > Len(integer_sizes) THEN [placed |-> placed, current_pos |-> current_pos]
    ELSE LET bumped == MinTile(integer_sizes[i], PrimaryDim(area, horizontal))
             size_primary == Capped(bumped, Available(area, horizontal, current_pos))
         IN IF bumped = 0
            THEN PlaceFrom(integer_sizes, area, horizontal, i + 1, current_pos, placed)
            ELSE IF size_primary < 3
            THEN [placed |-> placed, current_pos |-> current_pos]
            ELSE PlaceFrom(integer_sizes, area, horizontal, i + 1,
                           current_pos + size_primary,
                           Append(placed, [idx |-> i,
                                           rect |-> ChildRect(area, horizontal,
                                                              current_pos, size_primary)]))

Placement(node, area, horizontal) ==
    LET children == LayoutChildren(node)
        integer_sizes == IntegerSizes(children, node.size, PrimaryDim(area, horizontal))
    IN PlaceFrom(integer_sizes, area, horizontal, 1,
                 IF horizontal THEN area.x ELSE area.y, <<>>)

\* The leftover cells go to the last pair of the flat result.
Donate(result, remaining, horizontal) ==
    IF remaining > 0 /\ Len(result) > 0
    THEN LET last == result[Len(result)]
             new_rect == IF horizontal
                         THEN [last.rect EXCEPT !.width = last.rect.width + remaining]
                         ELSE [last.rect EXCEPT !.height = last.rect.height + remaining]
         IN [result EXCEPT ![Len(result)] = [rect |-> new_rect, node |-> last.node]]
    ELSE result

\* Mutation: a placed child is paired with its rectangle, whatever is below it.
LayoutPlacedWhole(children, placed, horizontal, k) ==
    [j \in 1..(Len(placed) - k + 1) |->
        [rect |-> placed[j + k - 1].rect, node |-> children[placed[j + k - 1].idx]]]

RECURSIVE layout_tree(_, _, _)
RECURSIVE LayoutPlaced(_, _, _, _)
\* result.extend(layout_tree(child, child_rect, !horizontal)) for each placed child.
LayoutPlaced(children, placed, horizontal, k) ==
    IF k > Len(placed) THEN <<>>
    ELSE layout_tree(children[placed[k].idx], placed[k].rect, ~horizontal)
         \o LayoutPlaced(children, placed, horizontal, k + 1)

layout_tree(node, area, horizontal) ==
    IF Len(node.children) = 0 \/ area.width < 3 \/ area.height < 3
    THEN <<[rect |-> area, node |-> node]>>
    ELSE IF Len(LayoutChildren(node)) = 0
    THEN <<[rect |-> area, node |-> node]>>
    ELSE LET p == Placement(node, area, horizontal)
             result == LayoutPlaced(LayoutChildren(node), p.placed, horizontal, 1)
         IN Donate(result, Available(area, horizontal, p.current_pos), horizontal)

(***************************************************************************)
(* The file system build_tree reads.                                       *)
(*                                                                         *)
(* A directory is [kind |-> "dir", err, entries]: err is what fs::read_dir *)
(* answers for it ("none": it opens; "perm": PermissionDenied; "io": any   *)
(* other error) and entries what its iteration yields, in order.  An entry *)
(* is a file of some size, a directory, a symlink, an entry that is none   *)
(* of these ("special"), an entry whose iteration fails ("bad_entry") or  *)
(* one whose metadata() fails ("bad_meta").  The name of the i-th entry    *)
(* of a listing is ToString(i).                                            *)
(***************************************************************************)
File(size) == [kind |-> "file", size |-> size, err |-> "none", entries |-> <<>>]

Dir(err, entries) == [kind |-> "dir", size |-> 0, err |-> err, entries |-> entries]

Symlink == [kind |-> "symlink", size |-> 0, err |-> "none", entries |-> <<>>]

Special == [kind |-> "special", size |-> 0, err |-> "none", entries |-> <<>>]

BadEntry(err) == [kind |-> "bad_entry", size |-> 0, err |-> err, entries |-> <<>>]

BadMeta(err) == [kind |-> "bad_meta", size |-> 0, err |-> err, entries |-> <<>>]

\* The canonicalized path given to build_tree.
ScanRoot == <<"scan">>

\* root.file_name(), "" when the path has none.
FileName(path) == IF Len(path) = 0 THEN "" ELSE path[Len(path)]

\* The name of the synthetic aggregate ("Прочее" in the source).
OtherName == "Other"

(***************************************************************************)
(* build_tree.                                                             *)
(***************************************************************************)
\* What a failed read does: Ok(recovered) under --ignoreos5 for a permission
\* error, Err otherwise.
\* Mutation: --ignoreos5 covers every error, not only permission errors.
IgnoredAny(ignore, err) == ignore

Ignored(ignore, err) == ignore /\ err = "perm"

\* children.sort_by_key(|c| Reverse(c.total_size())): a stable sort, so the
\* children of each size keep their order, the sizes descending.
RECURSIVE SortFrom(_, _)
SortFrom(children, sizes) ==
    IF sizes = {} THEN <<>>
    ELSE LET top == CHOOSE x \in sizes : \A y \in sizes : y <= x
         IN SelectSeq(children, LAMBDA c : c.size = top) \o SortFrom(children, sizes \ {top})

\* Mutation: the Reverse of the sort key is dropped, the sizes ascend.
SortBySizeAsc(children) ==
    LET d == SortFrom(children, {children[i].size : i \in 1..Len(children)})
    IN [i \in 1..Len(d) |-> d[Len(d) + 1 - i]]

SortBySizeDesc(children) ==
    SortFrom(children, {children[i].size : i \in 1..Len(children)})

\* Mutation: the tiers start at 50 and 200 files instead of above them.
CountFactorAtLeast(file_count) ==
    IF file_count >= 200 THEN 1 ELSE IF file_count >= 50 THEN 5 ELSE 10

\* count_factor, in thousandths.
CountFactor(file_count) ==
    IF file_count > 200 THEN 1 ELSE IF file_count > 50 THEN 5 ELSE 10

\* threshold, for file_count > 0:
\*     size_based.max(avg_based).max(1024.0) as u64
\* The cast truncates, and the floor of a maximum is the maximum of the
\* floors: total_size * count_factor is total_size * k / 1000 and
\* avg_size * 0.2 is file_total_size / (5 * file_count).  (For the sizes of
\* this model the f64 products have the same integer parts as the exact
\* ones.)
Threshold(total_size, file_count, file_total_size) ==
    Max(Max((total_size * CountFactor(file_count)) \div 1000,
            file_total_size \div (5 * file_count)),
        1024)

\* !child.is_dir && child.size < threshold; with file_count = 0 the
\* threshold is u64::MAX, above every size.
Folded(child, total_size, file_count, file_total_size) ==
    /\ ~child.is_dir
    /\ \/ file_count = 0
       \/ child.size < Threshold(total_size, file_count, file_total_size)

\* The "Other" node appended when other_size > 0.
OtherNode(root, other_size) == Node(OtherName, other_size, root, <<>>, FALSE)

\* Mutation: the node's size is file_total_size, the subdirectories left out.
AggregateSizeOfFiles(root, children, total_size, file_count, file_total_size) ==
    LET sorted == SortBySizeDesc(children)
        fold(c) == Folded(c, total_size, file_count, file_total_size)
        folded == SelectSeq(sorted, fold)
        filtered == SelectSeq(sorted, LAMBDA c : ~fold(c))
        other_size == SumSeq([i \in 1..Len(folded) |-> folded[i].size])
    IN Node(FileName(root), file_total_size, root,
            IF other_size > 0 THEN Append(filtered, OtherNode(root, other_size))
            ELSE filtered,
            TRUE)

\* Lines 257-304: sort, threshold, filter, "Other", the directory's node.
Aggregate(root, children, total_size, file_count, file_total_size) ==
    LET sorted == SortBySizeDesc(children)
        fold(c) == Folded(c, total_size, file_count, file_total_size)
        folded == SelectSeq(sorted, fold)
        filtered == SelectSeq(sorted, LAMBDA c : ~fold(c))
        other_size == SumSeq([i \in 1..Len(folded) |-> folded[i].size])
    IN Node(FileName(root), total_size, root,
            IF other_size > 0 THEN Append(filtered, OtherNode(root, other_size))
            ELSE filtered,
            TRUE)

\* The zero-size placeholder of a directory that could not be read.
Placeholder(root) == Node(FileName(root), 0, root, <<>>, TRUE)

Ok(node) == [ok |-> TRUE, node |-> node]

\* Mutation: file_count is incremented for directories too.
FileCountAll(children) == Len(children)

\* file_count: incremented once per file pushed.
FileCount(children) == Len(SelectSeq(children, LAMBDA c : ~c.is_dir))

Err == [ok |-> FALSE]

RECURSIVE build_tree(_, _, _)
\* One pass of `for entry in read_dir`: "fatal" returns Err from build_tree,
\* "skip" is `continue` (or an entry that is neither a file nor a directory),
\* "node" pushes a child.
EntryStep(entry, path, ignore) ==
    CASE entry.kind \in {"bad_entry", "bad_meta"} ->
            IF Ignored(ignore, entry.err) THEN [step |-> "skip"] ELSE [step |-> "fatal"]
      [] entry.kind = "symlink" -> [step |-> "skip"]
      [] entry.kind = "dir" ->
            LET child == build_tree(entry, path, ignore)
            IN IF child.ok THEN [step |-> "node", node |-> child.node]
               ELSE [step |-> "fatal"]
      [] entry.kind = "file" ->
            [step |-> "node", node |-> Node(FileName(path), entry.size, path, <<>>, FALSE)]
      [] OTHER -> [step |-> "skip"]

build_tree(dir, root, ignore) ==
    IF dir.err # "none"
    THEN IF Ignored(ignore, dir.err) THEN Ok(Placeholder(root)) ELSE Err
    ELSE LET steps == [i \in 1..Len(dir.entries) |->
                         EntryStep(dir.entries[i], Append(root, ToString(i)), ignore)]
             pushed == SelectSeq(steps, LAMBDA s : s.step = "node")
             children == [i \in 1..Len(pushed) |-> pushed[i].node]
             files == SelectSeq(children, LAMBDA c : ~c.is_dir)
         IN IF \E i \in 1..Len(steps) : steps[i].step = "fatal" THEN Err
            ELSE Ok(Aggregate(root, children,
                              SumSeq([i \in 1..Len(children) |-> children[i].size]),
                              FileCount(children),
                              SumSeq([i \in 1..Len(files) |-> files[i].size])))

(***************************************************************************)
(* SpecScan: build_tree over a bounded family of file systems.             *)
(***************************************************************************)
\* Bounds of the family.
MaxEntries == 3

MaxDepth == 2

PadSize == 5000

\* The sizes of the files of a listing: empty, below the 1024 floor, at its
\* edge, above it, and one that makes avg_size * 0.2 a non-integer.
FileSizes == {0, 300, 500, 1023, 2000, 18004}

\* All sequences over alphabet of length at most n.
SeqsUpTo(alphabet, n) == UNION {[1..k -> alphabet] : k \in 0..n}

\* Subdirectories of the aggregation family: one file above every threshold,
\* one big enough to move the parent's threshold, one folded into "Other",
\* an empty directory and an unreadable one.
AggSubDirs ==
    {Dir("none", <<File(2000)>>), Dir("none", <<File(250000)>>),
     Dir("none", <<File(300)>>), Dir("none", <<>>), Dir("perm", <<>>)}

\* Family 1: every listing of at most MaxEntries files and subdirectories.
AggInputs ==
    {Dir("none", l) : l \in SeqsUpTo({File(n) : n \in FileSizes} \cup AggSubDirs, MaxEntries)}

\* Family 2: file counts around the count_factor tiers (50 and 200): a run
\* of PadSize-byte files, then at most one more file and one subdirectory.
PadCounts == {49, 50, 199, 200}

TierInputs ==
    {Dir("none", [i \in 1..n |-> File(PadSize)] \o l) :
        n \in PadCounts,
        l \in {<<>>, <<File(2000)>>, <<File(2000), File(0)>>,
               <<File(2000), Dir("none", <<File(250000)>>)>>}}

\* Family 3: failures at every depth down to MaxDepth.  Each directory holds
\* a file, one entry of the kinds below or a directory one level deeper, and
\* a last entry after it.
Failing == {BadEntry("perm"), BadEntry("io"), BadMeta("perm"), BadMeta("io"),
            Dir("perm", <<>>), Dir("io", <<>>), Symlink, Special}

RECURSIVE ErrDirs(_)
ErrDirs(depth) ==
    {Dir("none", <<File(2000), x, y>>) :
        x \in Failing \cup (IF depth = 0 THEN {} ELSE ErrDirs(depth - 1)),
        y \in {File(1023), BadMeta("perm"), Dir("perm", <<>>)}}

ErrInputs == ErrDirs(MaxDepth) \cup {Dir("perm", <<>>), Dir("io", <<>>)}

ScanInputs == AggInputs \cup TierInputs \cup ErrInputs

NotYet == [ok |-> FALSE]

\* The variables of the specifications of single routines, where they are
\* not used.
ProgressIdle == done = FALSE /\ scanned_files = 0 /\ reporter = NotYet

ColorIdle == seahash = NotYet /\ color_cache = NotYet /\ lookups = <<>>

LoopIdle ==
    /\ app = NotYet /\ term = NotYet /\ nav_act = NotYet /\ nav_up = NotYet
    /\ ev = NotYet /\ was = NotYet

LayoutIdle ==
    lnode = NotYet /\ larea = NotYet /\ lhoriz = FALSE /\ lout = <<>> /\ ltop = <<>>

ScanIdle == fs = NotYet /\ ignore_os5 = FALSE /\ scan = NotYet

AuxIdle ==
    canvas = NotYet /\ tty = NotYet /\ screen = NotYet /\ ProgressIdle /\ ColorIdle

InitScan ==
    /\ pc = "scan"
    /\ fs \in ScanInputs
    /\ ignore_os5 \in BOOLEAN
    /\ scan = NotYet
    /\ lnode = NotYet /\ larea = NotYet /\ lhoriz = FALSE /\ lout = <<>> /\ ltop = <<>>
    /\ app = NotYet /\ term = NotYet /\ nav_act = NotYet /\ nav_up = NotYet
    /\ ev = NotYet /\ was = NotYet
    /\ AuxIdle

\* let root = build_tree(&path, args.ignoreos5)
Scan ==
    /\ pc = "scan"
    /\ scan' = build_tree(fs, ScanRoot, ignore_os5)
    /\ pc' = IF scan'.ok THEN "scanned" ELSE "failed"
    /\ UNCHANGED <<fs, ignore_os5, layout_vars, nav_vars, hist_vars, aux_vars>>

NextScan == Scan

SpecScan == InitScan /\ [][NextScan]_vars

(***************************************************************************)
(* SpecLayout: layout_tree over the trees of a bounded family of file      *)
(* systems and a few rectangles.                                           *)
(***************************************************************************)
\* Bounds of the family: the entries of a listing and the file sizes, in KiB.
MaxListing == 3

MaxKiB == 5

KiB == 2 ^ 10

\* The entries in a fixed order: files of whole KiB, two files below the
\* floor of 1024, and three subdirectories (two equal files, a file beside
\* an "Other", an empty one).  A listing names its entries by rank.
LayoutEntries ==
    [k \in 1..MaxKiB |-> File(k * KiB)] \o <<File(512), File(600)>> \o
    <<Dir("none", <<File(4 * KiB), File(4 * KiB)>>),
      Dir("none", <<File(2 * KiB), File(512)>>),
      Dir("none", <<>>)>>

\* The listings: build_tree sorts the children, so one order per multiset of
\* entries is enough; ranks do not decrease along a listing.
LayoutListings ==
    {[i \in 1..Len(r) |-> LayoutEntries[r[i]]] :
        r \in {q \in SeqsUpTo(1..Len(LayoutEntries), MaxListing) :
                  Len(q) > 0 /\ \A i \in 1..(Len(q) - 1) : q[i] <= q[i + 1]}}

LayoutAreas == {Rect(0, 0, w, h) : w \in {10, 20}, h \in {3, 6}} \cup {Rect(0, 0, 7, 2)}

InitLayout ==
    /\ pc = "layout"
    /\ fs \in {Dir("none", l) : l \in LayoutListings}
    /\ ignore_os5 = FALSE
    /\ scan = build_tree(fs, ScanRoot, ignore_os5)
    /\ lnode = scan.node
    /\ larea \in LayoutAreas
    /\ lhoriz \in BOOLEAN
    /\ lout = <<>>
    /\ ltop = <<>>
    /\ app = NotYet /\ term = NotYet /\ nav_act = NotYet /\ nav_up = NotYet
    /\ ev = NotYet /\ was = NotYet
    /\ AuxIdle

\* layout_tree(lnode, larea, lhoriz); ltop keeps the rounded shares of the
\* outermost call and what its placement loop handed to the recursive calls.
Layout ==
    /\ pc = "layout"
    /\ lout' = layout_tree(lnode, larea, lhoriz)
    /\ ltop' = [integer_sizes |-> IntegerSizes(LayoutChildren(lnode), lnode.size,
                                                PrimaryDim(larea, lhoriz)),
                placed |-> Placement(lnode, larea, lhoriz).placed]
    /\ pc' = "laid"
    /\ UNCHANGED <<scan_vars, lnode, larea, lhoriz, nav_vars, hist_vars, aux_vars>>

NextLayout == Layout

SpecLayout == InitLayout /\ [][NextLayout]_vars

(***************************************************************************)
(* struct App and the event loop of main.                                  *)
(***************************************************************************)
\* Option<T>.
None == [some |-> FALSE]

Some(v) == [some |-> TRUE, v |-> v]

\* Path::parent() of an absolute path: the path without its last component,
\* None for the file-system root (the empty sequence of components).
Parent(path) ==
    IF Len(path) = 0 THEN None ELSE Some(SubSeq(path, 1, Len(path) - 1))

\* App::new.
AppNew(root) ==
    [root |-> root, layout |-> <<>>, layout_dirty |-> TRUE, last_area_size |-> <<0, 0>>,
     selected |-> None, current_dir |-> root.path, mouse_pos |-> <<0, 0>>,
     offset_x |-> 0, offset_y |-> 0, scroll_mode |-> FALSE]

\* The inner fn recurse of find_node: depth first, the node before its
\* children, the first match wins.
RECURSIVE recurse(_, _)
recurse(node, path) ==
    IF node.path = path THEN Some(node)
    ELSE LET found == [i \in 1..Len(node.children) |-> recurse(node.children[i], path)]
             hits == {i \in 1..Len(found) : found[i].some}
         IN IF hits = {} THEN None
            ELSE found[CHOOSE i \in hits : \A j \in hits : i <= j]

find_node(self, path) ==
    IF self.root.path = path THEN Some(self.root) ELSE recurse(self.root, path)

\* Mutation: the hit test leaves the offsets out.
GetNodeAtUnscrolled(self, x, y) ==
    LET inside(i) ==
            /\ x >= self.layout[i].rect.x
            /\ x < self.layout[i].rect.x + self.layout[i].rect.width
            /\ y >= self.layout[i].rect.y
            /\ y < self.layout[i].rect.y + self.layout[i].rect.height
        hits == {i \in 1..Len(self.layout) : inside(i)}
    IN IF hits = {} THEN None
       ELSE Some(self.layout[CHOOSE i \in hits : \A j \in hits : i <= j].node)

\* get_node_at: the first pair of the layout whose rectangle, moved by the
\* offsets, holds (x, y).
get_node_at(self, x, y) ==
    LET inside(i) ==
            LET rx == self.layout[i].rect.x - self.offset_x
                ry == self.layout[i].rect.y - self.offset_y
            IN /\ x >= rx /\ x < rx + self.layout[i].rect.width
               /\ y >= ry /\ y < ry + self.layout[i].rect.height
        hits == {i \in 1..Len(self.layout) : inside(i)}
    IN IF hits = {} THEN None
       ELSE Some(self.layout[CHOOSE i \in hits : \A j \in hits : i <= j].node)

\* A u16 computation that overflowed in a build with overflow checks.
Panic == [panic |-> TRUE]

Value(v) == [panic |-> FALSE, v |-> v]

\* dynamic_size of recalculate_layout for a node with len children, in u16:
\* the cast of len truncates; the product and the sum panic on overflow in
\* a build with overflow checks (debug) and wrap in one without (release).
dynamic_size(len, overflow_checks) ==
    LET node_count == len % (2 ^ 16)
        product == node_count * 5
        sum == 200 + (product % (2 ^ 16))
    IN IF overflow_checks /\ (product > U16Max \/ sum > U16Max) THEN Panic
       ELSE Value(Min(sum % (2 ^ 16), 5000))

\* recalculate_layout: reads self.scroll_mode as the previous frame left it.
\* The trees of the specifications of the loop have few children, so that
\* dynamic_size is the same in every build.
recalculate_layout(self, area) ==
    LET found == find_node(self, self.current_dir)
        current_node == IF found.some THEN found.v ELSE self.root
        side == dynamic_size(Len(current_node.children), FALSE).v
        layout_area == IF self.scroll_mode THEN Rect(0, 0, side, side)
                       ELSE area
    IN [self EXCEPT !.layout = layout_tree(current_node, layout_area, TRUE)]

\* Mutation: only the dirty flag makes ensure_layout recompute.
EnsureLayoutWhenDirty(self, area) ==
    IF self.layout_dirty
    THEN [recalculate_layout(self, area)
             EXCEPT !.last_area_size = <<area.width, area.height>>,
                    !.scroll_mode = area.width < 40 \/ area.height < 20,
                    !.layout_dirty = FALSE]
    ELSE self

ensure_layout(self, area) ==
    LET area_size == <<area.width, area.height>>
        new_scroll_mode == area.width < 40 \/ area.height < 20
    IN IF \/ self.layout_dirty
          \/ self.last_area_size # area_size
          \/ self.scroll_mode # new_scroll_mode
       THEN [recalculate_layout(self, area) EXCEPT !.last_area_size = area_size,
                                                   !.scroll_mode = new_scroll_mode,
                                                   !.layout_dirty = FALSE]
       ELSE self

\* Mutation: an activation zooms into whatever node it found.
ActivateAnyNode(self, node) ==
    [self EXCEPT !.current_dir = node.path, !.offset_x = 0, !.offset_y = 0,
                 !.layout_dirty = TRUE]

\* What Enter and a click without Ctrl do with the node they found.
Activate(self, node) ==
    IF node.is_dir /\ Len(node.children) > 0
    THEN [self EXCEPT !.current_dir = node.path, !.offset_x = 0, !.offset_y = 0,
                      !.layout_dirty = TRUE]
    ELSE self

\* KeyCode::Enter.
OnEnter(self) ==
    IF self.selected.some /\ find_node(self, self.selected.v).some
    THEN Activate(self, find_node(self, self.selected.v).v)
    ELSE self

\* Mutation: navigate-up goes back to the scanned root.
OnLeftToRoot(self) ==
    IF self.scroll_mode THEN [self EXCEPT !.offset_x = SatSub(self.offset_x, 5)]
    ELSE [self EXCEPT !.current_dir = self.root.path,
                      !.offset_x = 0, !.offset_y = 0, !.layout_dirty = TRUE]

\* KeyCode::Char('h') | KeyCode::Left.
OnLeft(self) ==
    IF self.scroll_mode THEN [self EXCEPT !.offset_x = SatSub(self.offset_x, 5)]
    ELSE IF Parent(self.current_dir).some
    THEN [self EXCEPT !.current_dir = Parent(self.current_dir).v,
                      !.offset_x = 0, !.offset_y = 0, !.layout_dirty = TRUE]
    ELSE self

\* The other scroll keys: what they add to (offset_x, offset_y).
ScrollKeys ==
    [l |-> <<5, 0>>, k |-> <<0, -3>>, j |-> <<0, 3>>,
     H |-> <<-20, 0>>, L |-> <<20, 0>>, K |-> <<0, -10>>, J |-> <<0, 10>>]

\* Mutation: the offsets are not saturated.
PlainStep(v, d) == v + d

\* u16::saturating_add / saturating_sub of a signed step.
SatStep(v, d) == Max(0, Min(v + d, U16Max))

OnScrollKey(self, key) ==
    IF self.scroll_mode
    THEN [self EXCEPT !.offset_x = SatStep(self.offset_x, ScrollKeys[key][1]),
                      !.offset_y = SatStep(self.offset_y, ScrollKeys[key][2])]
    ELSE self

\* Mutation: a mouse move that hits nothing keeps the selection.
OnMovedKeeping(self, x, y) ==
    LET node == get_node_at(self, x, y)
    IN [self EXCEPT !.mouse_pos = <<x, y>>,
                    !.selected = IF node.some THEN Some(node.v.path) ELSE self.selected]

\* The arm of `match key.code` that takes a key code; the modifiers of the
\* key event are not looked at.
KeyArm ==
    [h |-> "h", Left |-> "h", l |-> "l", Right |-> "l",
     k |-> "k", Up |-> "k", j |-> "j", Down |-> "j",
     H |-> "H", L |-> "L", K |-> "K", J |-> "J"]

OnKey(self, code) ==
    IF KeyArm[code] = "h" THEN OnLeft(self) ELSE OnScrollKey(self, KeyArm[code])

\* MouseEventKind::Moved.
OnMoved(self, x, y) ==
    LET node == get_node_at(self, x, y)
    IN [self EXCEPT !.mouse_pos = <<x, y>>,
                    !.selected = IF node.some THEN Some(node.v.path) ELSE None]

\* MouseEventKind::Down: with Ctrl among the modifiers the node is opened in
\* the file manager and the App is left alone.
OnDown(self, x, y, modifiers) ==
    LET node == get_node_at(self, x, y)
    IN IF node.some /\ "CONTROL" \notin modifiers THEN Activate(self, node.v) ELSE self

(***************************************************************************)
(* ui: the tiles of a frame.                                               *)
(***************************************************************************)
\* chunks[0] of the vertical split of the frame by Min(0) and Length(5): the
\* status bar takes 5 rows, as far as there are 5, and the tiles the rest.
main_area(area) == Rect(area.x, area.y, area.width, SatSub(area.height, 5))

\* clip_rect: the part of rect inside area, None when it has no cell.  The
\* sums stay below 2^16 for the rectangles of the specifications.
clip_rect(rect, area) ==
    LET x1 == Max(rect.x, area.x)
        y1 == Max(rect.y, area.y)
        x2 == Min(rect.x + rect.width, area.x + area.width)
        y2 == Min(rect.y + rect.height, area.y + area.height)
    IN IF x1 < x2 /\ y1 < y2 THEN Some(Rect(x1, y1, x2 - x1, y2 - y1)) ELSE None

\* The body of the loop of ui for one pair of the layout: the rectangle that
\* is handed to render_widget, None when the pair is skipped.  The test that
\* skips a pair is made in i32; draw_rect is moved by saturating_sub in u16
\* and keeps its width and height.
Tile(self, view, rect) ==
    LET screen_x == rect.x - self.offset_x
        screen_y == rect.y - self.offset_y
        screen_right == screen_x + rect.width
        screen_bottom == screen_y + rect.height
        view_right == view.x + view.width
        view_bottom == view.y + view.height
        draw_rect == IF self.scroll_mode
                     THEN [rect EXCEPT !.x = SatSub(rect.x, self.offset_x),
                                       !.y = SatSub(rect.y, self.offset_y)]
                     ELSE rect
    IN IF \/ screen_right < view.x \/ screen_x >= view_right
          \/ screen_bottom < view.y \/ screen_y >= view_bottom
       THEN None
       ELSE clip_rect(draw_rect, view)

\* ui: what is rendered for each pair of the layout, in the order of the
\* layout.
ui(self, area) ==
    [i \in 1..Len(self.layout) |-> Tile(self, main_area(area), self.layout[i].rect)]

(***************************************************************************)
(* SpecCanvas: dynamic_size of recalculate_layout over children counts.    *)
(***************************************************************************)
\* The children counts from 0 up to this bound are all taken.
MaxChildren == 40

\* The children counts: the small ones, and the ones around the cap of
\* 5000 (960), around the overflow of the sum (13068) and of the product
\* (13108), and around the truncation of the cast (65536).
CanvasLens ==
    (0..MaxChildren)
    \cup {959, 960, 961, 13067, 13068, 13107, 13108, 65535, 65536, 65537}

InitCanvas ==
    /\ pc = "canvas"
    /\ ScanIdle /\ LayoutIdle /\ LoopIdle
    /\ tty = NotYet /\ screen = NotYet /\ ProgressIdle /\ ColorIdle
    /\ \E len \in CanvasLens, overflow_checks \in BOOLEAN :
           canvas = [len |-> len, overflow_checks |-> overflow_checks, out |-> NotYet]

\* The scroll-view branch of recalculate_layout up to dynamic_size.
CanvasSize ==
    /\ pc = "canvas"
    /\ canvas' = [canvas EXCEPT !.out = dynamic_size(canvas.len, canvas.overflow_checks)]
    /\ pc' = "sized"
    /\ UNCHANGED <<scan_vars, layout_vars, nav_vars, hist_vars, tty, screen,
                   progress_vars, color_vars>>

NextCanvas == CanvasSize

SpecCanvas == InitCanvas /\ [][NextCanvas]_vars

(***************************************************************************)
(* SpecNav: the event loop of main over a scanned tree.                    *)
(***************************************************************************)
\* The largest offset the scroll keys are followed to.
MaxOffset == 6

\* The scanned directory: a file, a small file (folded into "Other") and a
\* subdirectory that holds a file and a subdirectory of its own, which again
\* holds a file and a small file.
NavFs ==
    Dir("none",
        <<File(4 * KiB),
          File(600),
          Dir("none", <<File(2 * KiB),
                        Dir("none", <<File(2 * KiB), File(700)>>)>>)>>)

\* Terminal sizes: the smallest of the Normal view, and one of the scroll
\* view that has fewer than 3 rows.
TermSizes == {<<40, 20>>, <<30, 2>>}

\* The modifier keys held with a click: none, Ctrl, Shift.
ClickModifiers == {{}, {"CONTROL"}, {"SHIFT"}}

\* Where the mouse is taken to: the top-left cell of every tile that starts
\* on the screen, and the bottom-right cell of the screen.
MousePoints ==
    {<<app.layout[i].rect.x - app.offset_x, app.layout[i].rect.y - app.offset_y>> :
        i \in {j \in 1..Len(app.layout) :
                  /\ app.layout[j].rect.x - app.offset_x \in 0..(term.width - 1)
                  /\ app.layout[j].rect.y - app.offset_y \in 0..(term.height - 1)}}
    \cup {<<term.width - 1, term.height - 1>>}

InitNav ==
    /\ pc = "frame"
    /\ fs = NavFs
    /\ ignore_os5 = FALSE
    /\ scan = build_tree(fs, ScanRoot, ignore_os5)
    /\ lnode = NotYet /\ larea = NotYet /\ lhoriz = FALSE /\ lout = <<>> /\ ltop = <<>>
    /\ app = AppNew(scan.node)
    /\ term = Rect(0, 0, 0, 0)
    /\ nav_act = None
    /\ nav_up = None
    /\ ev = NotYet
    /\ was = NotYet
    /\ AuxIdle

\* The directory scanned for SpecEvents: a file, a small file (folded into
\* "Other"), a subdirectory that holds a file and a small file, and an empty
\* subdirectory.
EventsFs ==
    Dir("none",
        <<File(4 * KiB),
          File(600),
          Dir("none", <<File(2 * KiB), File(700)>>),
          Dir("none", <<>>)>>)

\* SpecEvents runs the same loop and keeps, with every step, what the step
\* was and the App it found.
InitEvents ==
    /\ pc = "frame"
    /\ fs = EventsFs
    /\ ignore_os5 = FALSE
    /\ scan = build_tree(fs, ScanRoot, ignore_os5)
    /\ lnode = NotYet /\ larea = NotYet /\ lhoriz = FALSE /\ lout = <<>> /\ ltop = <<>>
    /\ app = AppNew(scan.node)
    /\ term = Rect(0, 0, 0, 0)
    /\ nav_act = None
    /\ nav_up = None
    /\ ev = [kind |-> "start"]
    /\ was = app
    /\ AuxIdle

\* The step e is kept with the App it found, in the specification that keeps
\* steps.
Record(e) ==
    IF ev = NotYet THEN UNCHANGED hist_vars
    ELSE ev' = e /\ was' = app

\* The top of the loop: terminal.size(), ensure_layout, draw.
Frame ==
    /\ pc = "frame"
    /\ \E size \in TermSizes : term' = Rect(0, 0, size[1], size[2])
    /\ app' = ensure_layout(app, term')
    /\ pc' = "event"
    /\ Record([kind |-> "frame"])
    /\ UNCHANGED <<scan_vars, layout_vars, nav_act, nav_up, aux_vars>>

\* An event has been handled by an arm that is neither an activation nor a
\* navigate-up.
Handled(new_app, e) ==
    /\ pc = "event"
    /\ app' = new_app
    /\ pc' = "frame"
    /\ nav_act' = None
    /\ nav_up' = None
    /\ Record(e)
    /\ UNCHANGED <<scan_vars, layout_vars, term, aux_vars>>

\* An activation has been handled: nav_act keeps it when it changed
\* current_dir.
Activated(new_app, e) ==
    /\ pc = "event"
    /\ app' = new_app
    /\ pc' = "frame"
    /\ Record(e)
    /\ nav_act' = IF new_app.current_dir # app.current_dir
                  THEN Some([from |-> app.current_dir, to |-> new_app.current_dir])
                  ELSE None
    /\ nav_up' = None
    /\ UNCHANGED <<scan_vars, layout_vars, term, aux_vars>>

Resize == Handled([app EXCEPT !.layout_dirty = TRUE], [kind |-> "resize"])

Enter == Activated(OnEnter(app), [kind |-> "enter"])

\* h or Left: nav_up keeps the activation it follows when it is a
\* navigate-up of the Normal view.
Left ==
    /\ pc = "event"
    /\ app' = OnLeft(app)
    /\ pc' = "frame"
    /\ nav_act' = None
    /\ nav_up' = IF ~app.scroll_mode THEN nav_act ELSE None
    /\ Record([kind |-> "key", key |-> "h"])
    /\ UNCHANGED <<scan_vars, layout_vars, term, aux_vars>>

ScrollKey ==
    \E key \in DOMAIN ScrollKeys :
        /\ pc = "event"
        /\ OnScrollKey(app, key).offset_x <= MaxOffset
        /\ OnScrollKey(app, key).offset_y <= MaxOffset
        /\ Handled(OnScrollKey(app, key), [kind |-> "key", key |-> key])

MouseMoved ==
    /\ pc = "event"
    /\ \E p \in MousePoints :
        Handled(OnMoved(app, p[1], p[2]), [kind |-> "moved", at |-> p])

\* A click comes with the modifier keys that were held.
MouseDown ==
    /\ pc = "event"
    /\ \E p \in MousePoints : \E modifiers \in ClickModifiers :
        LET e == [kind |-> "down", at |-> p, modifiers |-> modifiers]
        IN IF "CONTROL" \in modifiers
           THEN Handled(OnDown(app, p[1], p[2], modifiers), e)
           ELSE Activated(OnDown(app, p[1], p[2], modifiers), e)

\* q or Esc.
Quit ==
    /\ pc = "event"
    /\ pc' = "done"
    /\ Record([kind |-> "quit"])
    /\ UNCHANGED <<scan_vars, layout_vars, nav_vars, aux_vars>>

NextNav ==
    \/ Frame
    \/ Resize
    \/ Enter
    \/ Left
    \/ ScrollKey
    \/ MouseMoved
    \/ MouseDown
    \/ Quit

SpecNav == InitNav /\ [][NextNav]_vars

SpecEvents == InitEvents /\ [][NextNav]_vars

(***************************************************************************)
(* SpecMain: main from enable_raw_mode to its return, with the calls that  *)
(* can return an error.                                                    *)
(***************************************************************************)
\* The directory scanned for SpecMain: two files.
MainFs == Dir("none", <<File(4 * KiB), File(2 * KiB)>>)

InitMain ==
    /\ pc = "enable_raw_mode"
    /\ fs = MainFs
    /\ ignore_os5 = FALSE
    /\ scan = build_tree(fs, ScanRoot, ignore_os5)
    /\ LayoutIdle
    /\ app = NotYet
    /\ term = Rect(0, 0, 0, 0)
    /\ nav_act = None
    /\ nav_up = None
    /\ ev = NotYet
    /\ was = NotYet
    /\ canvas = NotYet /\ screen = NotYet /\ ProgressIdle /\ ColorIdle
    /\ tty = [raw_mode |-> FALSE, alternate_screen |-> FALSE, mouse_capture |-> FALSE,
              error |-> "none"]

\* A call of main outside the loop has returned Ok: the terminal is as
\* new_tty and main goes on at next.
Called(at, new_tty, next) ==
    /\ pc = at
    /\ tty' = new_tty
    /\ pc' = next
    /\ UNCHANGED <<scan_vars, layout_vars, nav_vars, hist_vars, screen, canvas, progress_vars,
                   color_vars>>

EnableRawMode ==
    Called("enable_raw_mode", [tty EXCEPT !.raw_mode = TRUE], "EnterAlternateScreen")

EnterAlternateScreen ==
    Called("EnterAlternateScreen", [tty EXCEPT !.alternate_screen = TRUE],
           "EnableMouseCapture")

EnableMouseCapture ==
    Called("EnableMouseCapture", [tty EXCEPT !.mouse_capture = TRUE], "Terminal::new")

\* Terminal::new(backend)?, then App::new(root).
NewTerminal ==
    /\ pc = "Terminal::new"
    /\ app' = AppNew(scan.node)
    /\ pc' = "frame"
    /\ UNCHANGED <<scan_vars, layout_vars, term, nav_act, nav_up, hist_vars, aux_vars>>

DisableRawMode ==
    Called("done", [tty EXCEPT !.raw_mode = FALSE], "LeaveAlternateScreen")

LeaveAlternateScreen ==
    Called("LeaveAlternateScreen", [tty EXCEPT !.alternate_screen = FALSE],
           "DisableMouseCapture")

\* The last call of main, then Ok(()).
DisableMouseCapture ==
    Called("DisableMouseCapture", [tty EXCEPT !.mouse_capture = FALSE], "exit_ok")

\* The calls of main that are followed by `?`, by the position of main they
\* are made at: at "frame" these are terminal.size() and terminal.draw(),
\* at "event" it is event::read().
Fallible ==
    [p \in {"enable_raw_mode", "EnterAlternateScreen", "EnableMouseCapture",
            "Terminal::new", "done", "LeaveAlternateScreen", "DisableMouseCapture"}
        |-> {IF p = "done" THEN "disable_raw_mode" ELSE p}]
    @@ [p \in {"frame"} |-> {"terminal.size", "terminal.draw"}]
    @@ [p \in {"event"} |-> {"event::read"}]

\* One of them returns an error: `?` returns it from main, which drops the
\* App; the terminal is left as it is.
ReturnErr ==
    /\ pc \in DOMAIN Fallible
    /\ \E call \in Fallible[pc] : tty' = [tty EXCEPT !.error = call]
    /\ pc' = "exit_err"
    /\ app' = NotYet
    /\ UNCHANGED <<scan_vars, layout_vars, term, nav_act, nav_up, hist_vars, screen, canvas,
                   progress_vars, color_vars>>

NextMain ==
    \/ EnableRawMode
    \/ EnterAlternateScreen
    \/ EnableMouseCapture
    \/ NewTerminal
    \/ NextNav
    \/ DisableRawMode
    \/ LeaveAlternateScreen
    \/ DisableMouseCapture
    \/ ReturnErr

SpecMain == InitMain /\ [][NextMain]_vars

(***************************************************************************)
(* SpecProgress: main from the spawn of the progress thread to the join,   *)
(* and the progress thread.                                                *)
(***************************************************************************)
\* The directories scanned: three files; a file and a subdirectory with two
\* files; a directory that cannot be read.
ProgressInputs ==
    {Dir("none", <<File(2000), File(3000), File(1023)>>),
     Dir("none", <<File(2000), Dir("none", <<File(2 * KiB), File(700)>>)>>),
     Dir("io", <<>>)}

\* The files of a directory and of its subdirectories: build_tree adds 1 to
\* SCANNED_FILES for each.
RECURSIVE FilesIn(_)
FilesIn(dir) ==
    SumSeq([i \in 1..Len(dir.entries) |->
               IF dir.entries[i].kind = "file" THEN 1
               ELSE IF dir.entries[i].kind = "dir" THEN FilesIn(dir.entries[i])
               ELSE 0])

\* scan is what build_tree returns for fs, from the start: main has it when
\* build_tree has returned.
InitProgress ==
    /\ pc = "spawn"
    /\ fs \in ProgressInputs
    /\ ignore_os5 = FALSE
    /\ scan = build_tree(fs, ScanRoot, ignore_os5)
    /\ LayoutIdle /\ LoopIdle
    /\ canvas = NotYet /\ tty = NotYet /\ screen = NotYet /\ ColorIdle
    /\ done = FALSE
    /\ scanned_files = 0
    /\ reporter = [pc |-> "unspawned", last_count |-> 0, summaries |-> 0]

\* A step of main that leaves the progress thread's own state alone.
MainStep(at, next) ==
    /\ pc = at
    /\ pc' = next
    /\ UNCHANGED <<scan_vars, layout_vars, nav_vars, hist_vars, screen, canvas, tty,
                   color_vars>>

\* std::thread::spawn: the progress thread starts at the head of its loop.
Spawn ==
    /\ MainStep("spawn", "build_tree")
    /\ reporter' = [reporter EXCEPT !.pc = "loop"]
    /\ UNCHANGED <<done, scanned_files>>

\* build_tree has come to one more file.
ScanFile ==
    /\ MainStep("build_tree", "build_tree")
    /\ scanned_files < FilesIn(fs)
    /\ scanned_files' = scanned_files + 1
    /\ UNCHANGED <<done, reporter>>

\* build_tree returns Ok(root), when it has come to every file.
ScanOk ==
    /\ MainStep("build_tree", "store")
    /\ scan.ok
    /\ scanned_files = FilesIn(fs)
    /\ UNCHANGED <<done, scanned_files, reporter>>

\* build_tree returns an Err: `?` returns it from main and the process exits
\* with its threads.
ScanErr ==
    /\ MainStep("build_tree", "exit_err")
    /\ ~scan.ok
    /\ UNCHANGED <<done, scanned_files, reporter>>

\* done.store(true, Ordering::Relaxed).
Store ==
    /\ MainStep("store", "join")
    /\ done' = TRUE
    /\ UNCHANGED <<scanned_files, reporter>>

\* progress_thread.join() returns when the thread has ended; main goes on to
\* enable_raw_mode.
Join ==
    /\ MainStep("join", "enable_raw_mode")
    /\ reporter.pc = "exited"
    /\ UNCHANGED <<done, scanned_files, reporter>>

\* A step of the progress thread, which runs as long as the process does.
ReporterStep(at, new_reporter) ==
    /\ pc # "exit_err"
    /\ reporter.pc = at
    /\ reporter' = new_reporter
    /\ UNCHANGED <<pc, scan_vars, layout_vars, nav_vars, hist_vars, screen, canvas, tty,
                   color_vars, done, scanned_files>>

\* Mutation: the loop of the progress thread ends without looking at done.
ReporterLoopIgnoringDone ==
    ReporterStep("loop", [reporter EXCEPT !.pc = "summary"])

\* while !done_flag.load(Ordering::Relaxed).
ReporterLoop ==
    ReporterStep("loop", [reporter EXCEPT !.pc = IF done THEN "summary" ELSE "sample"])

\* The body of the loop up to the print: count is loaded and kept.
ReporterSample ==
    ReporterStep("sample", [reporter EXCEPT !.last_count = scanned_files, !.pc = "sleep"])

\* std::thread::sleep(Duration::from_millis(200)).
ReporterSleep ==
    ReporterStep("sleep", [reporter EXCEPT !.pc = "loop"])

\* The println of the final summary, after which the thread ends.
ReporterSummary ==
    ReporterStep("summary", [reporter EXCEPT !.summaries = @ + 1, !.pc = "exited"])

MainProgress == Spawn \/ ScanFile \/ ScanOk \/ ScanErr \/ Store \/ Join

ReporterProgress == ReporterLoop \/ ReporterSample \/ ReporterSleep \/ ReporterSummary

NextProgress == MainProgress \/ ReporterProgress

\* Both threads are scheduled again and again as long as they can run.
SpecProgress ==
    /\ InitProgress /\ [][NextProgress]_vars
    /\ WF_vars(MainProgress)
    /\ WF_vars(ReporterProgress)

(***************************************************************************)
(* color_for_extension.  Strings are sequences of characters; a u64 is the *)
(* sequence of its four 16-bit limbs, the most significant first.          *)
(***************************************************************************)
Rgb(r, g, b) == [r |-> r, g |-> g, b |-> b]

\* str::to_lowercase, on the letters that occur.
to_lowercase(s) ==
    LET lower == [R |-> "r", S |-> "s", M |-> "m", D |-> "d"]
    IN [i \in 1..Len(s) |-> IF s[i] \in DOMAIN lower THEN lower[s[i]] ELSE s[i]]

\* seahash::hash is a function of the bytes that is not given by this
\* source; seahash holds which one of a few functions it is.  Each takes the
\* four limbs from sums over the bytes with different weights.
hash(bytes) ==
    LET byte == [r |-> 114, s |-> 115, m |-> 109, d |-> 100,
                 R |-> 82, S |-> 83, M |-> 77, D |-> 68]
        weighted(n) == SumSeq([i \in 1..Len(bytes) |->
                                  byte[bytes[i]] * (seahash * 131 + n * 37 + i * 17)])
        limb(n) == weighted(n) % (2 ^ 16)
    IN <<limb(1), limb(2), limb(3), limb(4)>>

\* hsl_to_rgb for an integral hue (degrees) and for saturation and lightness
\* in hundredths, in exact arithmetic over the denominator 1200000; the f64
\* computation of the source rounds on the way.
hsl_to_rgb(h, s, l) ==
    LET c == (100 - (IF 2 * l >= 100 THEN 2 * l - 100 ELSE 100 - 2 * l)) * s
        phase == h % 120
        t == 60 - (IF phase >= 60 THEN phase - 60 ELSE 60 - phase)
        cn == 120 * c
        xn == 2 * c * t
        mn == 60 * (200 * l - c)
        primes == IF h < 60 THEN <<cn, xn, 0>>
                  ELSE IF h < 120 THEN <<xn, cn, 0>>
                  ELSE IF h < 180 THEN <<0, cn, xn>>
                  ELSE IF h < 240 THEN <<0, xn, cn>>
                  ELSE IF h < 300 THEN <<xn, 0, cn>>
                  ELSE <<cn, 0, xn>>
        channel(p) == Max(0, Min(255, ((p + mn) * 255) \div 1200000))
    IN <<channel(primes[1]), channel(primes[2]), channel(primes[3])>>

\* The color computed for a lowercased extension: hue from hash >> 32,
\* saturation from hash >> 16 and lightness from hash >> 8 (65536 is 16
\* modulo 360 and 1 modulo 15, 256 is 1 modulo 15).
FreshColor(ext) ==
    LET w == hash(ext)
        hue == ((w[1] % 360) * 16 + w[2]) % 360
        high == (w[1] + w[2] + w[3]) % 15
        saturation == 65 + 2 * high
        lightness == 55 + 2 * ((high + (w[4] \div 256)) % 15)
        rgb == hsl_to_rgb(hue, saturation, lightness)
    IN Rgb(rgb[1], rgb[2], rgb[3])

\* Mutation: the extension is looked up and hashed as it is given.
ColorForExtensionAsGiven(cache, ext) ==
    IF ~ext.some \/ ext.v = <<>> THEN [color |-> Rgb(150, 150, 150), cache |-> cache]
    ELSE IF ext.v \in DOMAIN cache THEN [color |-> cache[ext.v], cache |-> cache]
    ELSE [color |-> FreshColor(ext.v), cache |-> (ext.v :> FreshColor(ext.v)) @@ cache]

\* color_for_extension, with COLOR_CACHE as cache: the color returned and
\* the cache it leaves.
color_for_extension(cache, ext) ==
    LET lowered == to_lowercase(IF ext.some THEN ext.v ELSE <<>>)
    IN IF lowered = <<>> THEN [color |-> Rgb(150, 150, 150), cache |-> cache]
       ELSE IF lowered \in DOMAIN cache THEN [color |-> cache[lowered], cache |-> cache]
       ELSE [color |-> FreshColor(lowered),
             cache |-> (lowered :> FreshColor(lowered)) @@ cache]

(***************************************************************************)
(* SpecColor: calls of color_for_extension, one after the other.           *)
(***************************************************************************)
\* How many calls are followed.
MaxLookups == 3

\* The extensions asked for: none, the empty one, "rs" in three spellings,
\* and "md".
Extensions ==
    {None, Some(<<>>), Some(<<"r", "s">>), Some(<<"R", "S">>), Some(<<"R", "s">>),
     Some(<<"m", "d">>)}

InitColor ==
    /\ pc = "color"
    /\ ScanIdle /\ LayoutIdle /\ LoopIdle
    /\ canvas = NotYet /\ tty = NotYet /\ screen = NotYet /\ ProgressIdle
    /\ seahash \in {1, 2}
    /\ color_cache = <<>>
    /\ lookups = <<>>

\* One call: lookups keeps the argument, the color returned and the cache
\* the call has left.
Lookup ==
    /\ Len(lookups) < MaxLookups
    /\ pc = "color"
    /\ \E ext \in Extensions :
           LET returned == color_for_extension(color_cache, ext)
           IN /\ color_cache' = returned.cache
              /\ lookups' = Append(lookups, [ext |-> ext, color |-> returned.color,
                                             cache |-> returned.cache])
    /\ UNCHANGED <<pc, scan_vars, layout_vars, nav_vars, hist_vars, screen, canvas, tty,
                   progress_vars, seahash>>

NextColor == Lookup

SpecColor == InitColor /\ [][NextColor]_vars

(***************************************************************************)
(* SpecScroll: one key event of the loop, met with any scroll offsets.     *)
(***************************************************************************)
\* How many presses of a scroll key the offsets are away from 0 or from the
\* largest u16.
MaxPresses == 5

ScrollOffsets(step) ==
    {step * n : n \in 0..MaxPresses} \cup {U16Max - step * n : n \in 0..MaxPresses}

\* The key events: a letter comes with Shift exactly when it is a capital,
\* an arrow comes with or without Shift.
KeyEvents ==
    {[kind |-> "key", code |-> c, shift |-> FALSE] : c \in {"h", "j", "k", "l"}}
    \cup {[kind |-> "key", code |-> c, shift |-> TRUE] : c \in {"H", "J", "K", "L"}}
    \cup {[kind |-> "key", code |-> c, shift |-> s] :
              c \in {"Left", "Right", "Up", "Down"}, s \in BOOLEAN}

\* The App after the first frame in a terminal of one of the sizes, with the
\* offsets that presses of l and j in the scroll view lead to, or presses of
\* h and k after the offsets were saturated.  In the Normal view the App is
\* the one drawn after the terminal has grown and has been resized.
InitScroll ==
    /\ pc = "event"
    /\ fs = EventsFs
    /\ ignore_os5 = FALSE
    /\ scan = build_tree(fs, ScanRoot, ignore_os5)
    /\ lnode = NotYet /\ larea = NotYet /\ lhoriz = FALSE /\ lout = <<>> /\ ltop = <<>>
    /\ \E size \in TermSizes : term = Rect(0, 0, size[1], size[2])
    /\ \E x \in ScrollOffsets(5), y \in ScrollOffsets(3) :
           app = [ensure_layout(AppNew(scan.node), term)
                     EXCEPT !.offset_x = x, !.offset_y = y]
    /\ nav_act = None
    /\ nav_up = None
    /\ ev = [kind |-> "start"]
    /\ was = app
    /\ AuxIdle

\* Event::Key: the arm of its code is run.
Key ==
    /\ pc = "event"
    /\ \E e \in KeyEvents :
           /\ app' = OnKey(app, e.code)
           /\ Record(e)
    /\ pc' = "frame"
    /\ UNCHANGED <<scan_vars, layout_vars, term, nav_act, nav_up, aux_vars>>

NextScroll == Key

SpecScroll == InitScroll /\ [][NextScroll]_vars

(***************************************************************************)
(* SpecDraw: ui drawing the cached layout of a scrolled view.              *)
(***************************************************************************)
\* How many presses of l and of j the view is scrolled by, at most.
MaxScrolls == 44

\* Terminals of the scroll view that leave rows for the tiles.
DrawSizes == {<<30, 11>>, <<20, 8>>}

\* The terminal has one of the sizes, a first frame has been drawn and a
\* resize event has come: the next frame lays the root out on the virtual
\* canvas.
InitDraw ==
    /\ pc = "frame"
    /\ fs = EventsFs
    /\ ignore_os5 = FALSE
    /\ scan = build_tree(fs, ScanRoot, ignore_os5)
    /\ LayoutIdle
    /\ \E size \in DrawSizes : term = Rect(0, 0, size[1], size[2])
    /\ app = [ensure_layout(AppNew(scan.node), term) EXCEPT !.layout_dirty = TRUE]
    /\ nav_act = None
    /\ nav_up = None
    /\ ev = NotYet
    /\ was = NotYet
    /\ canvas = NotYet /\ tty = NotYet /\ ProgressIdle /\ ColorIdle
    /\ screen = NotYet

\* The top of the loop in a terminal that keeps its size: ensure_layout and
\* terminal.draw(|f| ui(f, &mut app)).
DrawFrame ==
    /\ pc = "frame"
    /\ app' = ensure_layout(app, term)
    /\ screen' = ui(app', term)
    /\ pc' = "event"
    /\ UNCHANGED <<scan_vars, layout_vars, term, nav_act, nav_up, hist_vars, canvas, tty,
                   progress_vars, color_vars>>

\* l or j is pressed.
DrawScroll ==
    /\ pc = "event"
    /\ \E key \in {"l", "j"} :
           /\ app' = OnScrollKey(app, key)
           /\ app'.offset_x <= 5 * MaxScrolls
           /\ app'.offset_y <= 3 * MaxScrolls
    /\ pc' = "frame"
    /\ UNCHANGED <<scan_vars, layout_vars, term, nav_act, nav_up, hist_vars, canvas, tty,
                   screen, progress_vars, color_vars>>

NextDraw == DrawFrame \/ DrawScroll

SpecDraw == InitDraw /\ [][NextDraw]_vars

(***************************************************************************)
(* Reading a scanned tree against the file system it was built from.       *)
(***************************************************************************)
Range(seq) == {seq[i] : i \in 1..Len(seq)}

\* The path build_tree gives to entry i of the directory scanned as node.
EntryPath(node, i) == Append(node.path, ToString(i))

\* Entry i of the directory has a node among the children of its node.
Visible(node, i) == \E c \in Range(node.children) : c.path = EntryPath(node, i)

ChildAt(node, i) == CHOOSE c \in Range(node.children) : c.path = EntryPath(node, i)

\* The indices of the entries of dir of the given kind.
EntriesOfKind(dir, kind) == {i \in 1..Len(dir.entries) : dir.entries[i].kind = kind}

\* Every readable directory of the file system that has a node in the tree,
\* with that node: the scanned directory itself and, recursively, its
\* readable subdirectories.
RECURSIVE DirPairs(_, _)
DirPairs(dir, node) ==
    {[dir |-> dir, node |-> node]} \cup
    UNION {DirPairs(dir.entries[i], ChildAt(node, i)) :
              i \in {j \in EntriesOfKind(dir, "dir") :
                        dir.entries[j].err = "none" /\ Visible(node, j)}}

ScannedPairs == IF fs.err = "none" THEN DirPairs(fs, scan.node) ELSE {}

\* Every node of a tree.
RECURSIVE NodesOf(_)
NodesOf(node) == {node} \cup UNION {NodesOf(c) : c \in Range(node.children)}

\* The "Other" aggregates among the children of a directory node: they carry
\* the directory's own path.
OthersOf(node) == {i \in 1..Len(node.children) : node.children[i].path = node.path}

ChildSizes(node) == [i \in 1..Len(node.children) |-> node.children[i].size]

\* The sizes of the direct files of a directory, 0 for its other entries.
FileSizesOf(dir) ==
    [i \in 1..Len(dir.entries) |->
        IF dir.entries[i].kind = "file" THEN dir.entries[i].size ELSE 0]

(***************************************************************************)
(* C1.  Size invariant.                                                    *)
(***************************************************************************)
\* C1: in every tree build_tree returns, with or without --ignoreos5, the
\* size of every directory node is the sum of the sizes of its children as
\* they stand after aggregation, at every depth.
C1_SizeInvariant ==
    pc = "scanned" =>
        \A n \in NodesOf(scan.node) : n.is_dir => n.size = SumSeq(ChildSizes(n))

\* A tree scanned under --ignoreos5 that holds, below the root, a zero-size
\* placeholder and an "Other" aggregate inside a subdirectory.
C1_Witness ==
    /\ pc = "scanned" /\ ignore_os5
    /\ \E n \in NodesOf(scan.node) :
          /\ n.is_dir /\ Len(n.path) > 1 /\ n.size > 0
          /\ \E c \in Range(n.children) : c.is_dir /\ c.size = 0 /\ Len(c.children) = 0
          /\ \E m \in NodesOf(scan.node) : m.is_dir /\ Len(m.path) > 1 /\ OthersOf(m) # {}

(***************************************************************************)
(* C2.  Which direct files are folded into "Other".                        *)
(***************************************************************************)
\* The number and the total size of the direct files of a directory.
DirectFileCount(dir) == Cardinality(EntriesOfKind(dir, "file"))

DirectFileTotal(dir) == SumSeq(FileSizesOf(dir))

\* The count factor as the specification states it, in thousandths.
StatedFactor(count) ==
    IF count <= 50 THEN 10 ELSE IF count <= 200 THEN 5 ELSE 1

\* size < max(1024, total * factor, average * 0.2) with the maximum taken as
\* a real number, written without division.
BelowRealThreshold(size, total, count, file_total) ==
    \/ size < 1024
    \/ size * 1000 < total * StatedFactor(count)
    \/ size * 5 * count < file_total

\* The same comparison with the maximum truncated to an integer first.
BelowTruncatedThreshold(size, total, count, file_total) ==
    \/ size < 1024
    \/ size < (total * StatedFactor(count)) \div 1000
    \/ size < file_total \div (5 * count)

\* Every subdirectory that produced a node is among the children.
DirsKept(p) ==
    \A i \in EntriesOfKind(p.dir, "dir") :
        (p.dir.entries[i].err = "none" \/ Ignored(ignore_os5, p.dir.entries[i].err))
            => /\ Visible(p.node, i)
               /\ ChildAt(p.node, i).is_dir

\* C2, as stated: a direct file is folded exactly when its size is strictly
\* below max(1024, total_size * count_factor, average_file_size * 0.2) taken
\* as a real value, and directories are never folded.
C2_RealThreshold ==
    pc = "scanned" =>
        \A p \in ScannedPairs :
            /\ DirsKept(p)
            /\ \A i \in EntriesOfKind(p.dir, "file") :
                  ~Visible(p.node, i) <=>
                      BelowRealThreshold(p.dir.entries[i].size, p.node.size,
                                         DirectFileCount(p.dir), DirectFileTotal(p.dir))

\* C2, amended: a direct file is folded exactly when its size is strictly
\* below that maximum truncated to an integer (the tiers and the floor of
\* 1024 as stated), and directories are never folded.
C2_TruncatedThreshold ==
    pc = "scanned" =>
        \A p \in ScannedPairs :
            /\ DirsKept(p)
            /\ \A i \in EntriesOfKind(p.dir, "file") :
                  ~Visible(p.node, i) <=>
                      BelowTruncatedThreshold(p.dir.entries[i].size, p.node.size,
                                              DirectFileCount(p.dir), DirectFileTotal(p.dir))

\* A directory of more than 200 direct files in which a file is kept that
\* either of the other two count factors would fold, beside a subdirectory
\* that is kept too.
C2_Witness ==
    /\ pc = "scanned"
    /\ DirectFileCount(fs) > 200
    /\ EntriesOfKind(fs, "dir") # {}
    /\ \E i \in EntriesOfKind(fs, "file") :
          /\ Visible(scan.node, i)
          /\ fs.entries[i].size * 1000 < scan.node.size * 5

(***************************************************************************)
(* C3.  The order of the children and the "Other" node.                    *)
(***************************************************************************)
\* The total size of the direct files of p.dir that have no node of their own.
FoldedTotal(p) ==
    SumSeq([i \in 1..Len(p.dir.entries) |->
               IF p.dir.entries[i].kind = "file" /\ ~Visible(p.node, i)
               THEN p.dir.entries[i].size ELSE 0])

\* Child k of p.node is the node of one entry of p.dir, a file with the
\* file's size or a directory.
RealChild(p, k) ==
    \E i \in 1..Len(p.dir.entries) :
        /\ p.node.children[k].path = EntryPath(p.node, i)
        /\ \/ /\ p.dir.entries[i].kind = "file"
              /\ ~p.node.children[k].is_dir
              /\ p.node.children[k].size = p.dir.entries[i].size
           \/ /\ p.dir.entries[i].kind = "dir"
              /\ p.node.children[k].is_dir

ChildrenAsStated(p) ==
    LET ch == p.node.children
        others == OthersOf(p.node)
        real == (1..Len(ch)) \ others
    IN /\ \A k \in real : RealChild(p, k)
       /\ \A j, k \in real : j < k => ch[j].size >= ch[k].size /\ ch[j].path # ch[k].path
       /\ others = IF FoldedTotal(p) > 0 THEN {Len(ch)} ELSE {}
       /\ \A k \in others :
             /\ ch[k].name = OtherName
             /\ ~ch[k].is_dir
             /\ ch[k].children = <<>>
             /\ ch[k].size = FoldedTotal(p)

TwoSmallFilesAndSubdir == <<File(500), File(300), Dir("none", <<File(2000)>>)>>

\* C3: the children of every directory are its non-folded real children in
\* descending order of size, followed by exactly one "Other" node (not a
\* directory, no children, the directory's own path, the folded sizes summed)
\* exactly when that sum is positive; files of 500 and 300 beside a
\* subdirectory of 2000 give [subdir(2000), Other(800)].
C3_ChildrenOrder ==
    pc = "scanned" =>
        /\ \A p \in ScannedPairs : ChildrenAsStated(p)
        /\ fs.entries = TwoSmallFilesAndSubdir =>
              /\ Len(scan.node.children) = 2
              /\ scan.node.children[1].is_dir
              /\ scan.node.children[1].path = EntryPath(scan.node, 3)
              /\ ChildSizes(scan.node) = <<2000, 800>>
              /\ scan.node.children[2].name = OtherName

\* A directory whose "Other" node comes last although it is larger than the
\* real child before it.
C3_Witness ==
    /\ pc = "scanned"
    /\ \E p \in ScannedPairs :
          LET ch == p.node.children
          IN /\ Len(ch) >= 2
             /\ OthersOf(p.node) = {Len(ch)}
             /\ ch[Len(ch)].size > ch[Len(ch) - 1].size

(***************************************************************************)
(* C4.  What the folding of a directory depends on.                        *)
(***************************************************************************)
\* Whether each direct file of dir, in listing order, is folded in node.
FoldedFlags(dir, node) ==
    LET idx == SelectSeq([i \in 1..Len(dir.entries) |-> i],
                         LAMBDA i : dir.entries[i].kind = "file")
    IN [k \in 1..Len(idx) |-> ~Visible(node, idx[k])]

\* dir without its subdirectories.
WithoutDirs(dir) == Dir("none", SelectSeq(dir.entries, LAMBDA e : e.kind # "dir"))

\* dir with its subdirectories replaced by a single one of the same total
\* size, listed last.
SubdirTotal(node) ==
    SumSeq([i \in 1..Len(node.children) |->
               IF node.children[i].is_dir THEN node.children[i].size ELSE 0])

Collapsed(dir, node) ==
    Dir("none", Append(WithoutDirs(dir).entries, Dir("none", <<File(SubdirTotal(node))>>)))

SameFolding(dir, node, other) ==
    LET tree == build_tree(other, ScanRoot, ignore_os5)
    IN tree.ok /\ FoldedFlags(other, tree.node) = FoldedFlags(dir, node)

\* C4, as stated: the set of direct files folded in a directory depends only
\* on its direct files, so a directory folds the same files with and without
\* its subdirectories.
C4_DirectFilesOnly ==
    (pc = "scanned" /\ fs.err = "none") => SameFolding(fs, scan.node, WithoutDirs(fs))

\* C4, amended: the folding depends on the direct files and on the total
\* size of the subdirectories only: a directory folds the same files when
\* its subdirectories are replaced by one of the same total size.
C4_DirectFilesAndTotal ==
    (pc = "scanned" /\ fs.err = "none") => SameFolding(fs, scan.node, Collapsed(fs, scan.node))

\* Two subdirectories beside a file of 1024 bytes or more that is folded.
C4_Witness ==
    /\ pc = "scanned" /\ fs.err = "none"
    /\ Cardinality({i \in EntriesOfKind(fs, "dir") :
                       Visible(scan.node, i) /\ ChildAt(scan.node, i).size > 0}) >= 2
    /\ \E i \in EntriesOfKind(fs, "file") : fs.entries[i].size >= 1024 /\ ~Visible(scan.node, i)

(***************************************************************************)
(* C5.  The error policy of build_tree.                                    *)
(***************************************************************************)
\* A failure that --ignoreos5 does not cover.
Uncovered(err) == ~(ignore_os5 /\ err = "perm")

\* Some read that the scan of dir performs fails with an uncovered error.
RECURSIVE FatalIn(_)
FatalIn(dir) ==
    IF dir.err # "none" THEN Uncovered(dir.err)
    ELSE \E i \in 1..Len(dir.entries) :
            \/ /\ dir.entries[i].kind \in {"bad_entry", "bad_meta"}
               /\ Uncovered(dir.entries[i].err)
            \/ /\ dir.entries[i].kind = "dir"
               /\ FatalIn(dir.entries[i])

IsPlaceholder(node) == node.is_dir /\ node.size = 0 /\ node.children = <<>>

\* The sizes that the entries of p.dir contribute to it: a file its size, a
\* subdirectory the size of its node, anything else nothing.
ScannedSizes(p) ==
    [i \in 1..Len(p.dir.entries) |->
        CASE p.dir.entries[i].kind = "file" -> p.dir.entries[i].size
          [] p.dir.entries[i].kind = "dir" /\ Visible(p.node, i) -> ChildAt(p.node, i).size
          [] OTHER -> 0]

\* C5: build_tree returns an error exactly when some directory read, entry
\* iteration or entry metadata read fails with an error that is not a
\* permission error or while --ignoreos5 is unset.  Otherwise every
\* directory whose read failed is a zero-size childless directory node among
\* its parent's children, every entry whose iteration or metadata read
\* failed is absent, and the other entries of the directory are scanned.
C5_ErrorPolicy ==
    pc # "scan" =>
        /\ (pc = "failed") <=> FatalIn(fs)
        /\ scan.ok <=> ~FatalIn(fs)
        /\ (pc = "scanned" /\ fs.err # "none") => IsPlaceholder(scan.node)
        /\ pc = "scanned" =>
              \A p \in ScannedPairs :
                  /\ \A i \in 1..Len(p.dir.entries) :
                        /\ (p.dir.entries[i].kind = "dir" /\ p.dir.entries[i].err # "none")
                              => Visible(p.node, i) /\ IsPlaceholder(ChildAt(p.node, i))
                        /\ p.dir.entries[i].kind \in {"bad_entry", "bad_meta"}
                              => ~Visible(p.node, i)
                  /\ DirsKept(p)
                  /\ p.node.size = SumSeq(ScannedSizes(p))

\* Under --ignoreos5, a directory below the root in which an entry whose
\* metadata cannot be read is followed by an unreadable subdirectory, kept
\* as a placeholder, while the file before them is scanned.
C5_Witness ==
    /\ pc = "scanned" /\ ignore_os5
    /\ \E p \in ScannedPairs :
          /\ Len(p.node.path) > 1
          /\ Len(p.dir.entries) = 3
          /\ p.dir.entries[2].kind = "bad_meta"
          /\ p.dir.entries[3].kind = "dir" /\ p.dir.entries[3].err = "perm"
          /\ Visible(p.node, 1) /\ ~Visible(p.node, 2) /\ Visible(p.node, 3)

(***************************************************************************)
(* Reading a layout.                                                       *)
(***************************************************************************)
\* The extent of a rectangle along the axis the outermost call divides.
PrimaryLen(r) == IF lhoriz THEN r.width ELSE r.height

PrimaryPos(r) == IF lhoriz THEN r.x ELSE r.y

SecondaryLen(r) == IF lhoriz THEN r.height ELSE r.width

Cells(r) == (r.x..(r.x + r.width - 1)) \X (r.y..(r.y + r.height - 1))

\* The children of lnode that take part in the layout.
Sized == SelectSeq(lnode.children, LAMBDA c : c.size > 0)

\* layout_tree went past its first return.
Divided ==
    /\ pc = "laid"
    /\ larea.width >= 3 /\ larea.height >= 3
    /\ Len(Sized) > 0

\* Every sized child is a leaf and has the rectangle at its rank in lout.
AllLeavesPlaced ==
    /\ \A c \in Range(lnode.children) : c.children = <<>>
    /\ Len(lout) = Len(Sized)
    /\ \A i \in 1..Len(lout) : lout[i].node = Sized[i]

(***************************************************************************)
(* C6.  Partition exactness.                                               *)
(***************************************************************************)
\* C6: when the rectangle is at least 3 by 3, the children are leaves whose
\* sizes sum to a positive node.size, and every child of nonzero size gets a
\* rectangle, the primary lengths of the rectangles sum to exactly the
\* primary dimension and no two rectangles overlap.
C6_PartitionExact ==
    (Divided /\ lnode.size > 0 /\ lnode.size = SumSeq(ChildSizes(lnode)) /\ AllLeavesPlaced)
        => /\ SumSeq([i \in 1..Len(lout) |-> PrimaryLen(lout[i].rect)]) = PrimaryLen(larea)
           /\ \A i, j \in 1..Len(lout) :
                 i # j => Cells(lout[i].rect) \cap Cells(lout[j].rect) = {}

\* Two leaves of different lengths beside a child of size zero, both placed.
C6_Witness ==
    /\ Divided /\ AllLeavesPlaced
    /\ Len(lout) = 2
    /\ Len(lnode.children) = 3
    /\ PrimaryLen(lout[1].rect) > PrimaryLen(lout[2].rect)

(***************************************************************************)
(* C7.  Largest-remainder rounding.                                        *)
(***************************************************************************)
\* The allocation over the exact shares size * W / total: the floors, and
\* one more cell for the first `remainder` children by descending
\* fractional part (the numerator size * W mod total), ties in child order.
ExactAllocation(sizes, total, W) ==
    LET floors == [i \in 1..Len(sizes) |-> (sizes[i] * W) \div total]
        num == [i \in 1..Len(sizes) |-> (sizes[i] * W) % total]
        remainder == W - SumSeq(floors)
        before(i) == {j \in 1..Len(sizes) : num[j] > num[i] \/ (num[j] = num[i] /\ j < i)}
    IN [i \in 1..Len(sizes) |->
           floors[i] + (IF Cardinality(before(i)) < remainder THEN 1 ELSE 0)]

\* C7: the rounded shares are the largest-remainder allocation of the real
\* shares (size / node.size) * primary_dim, ties between equal fractional
\* parts resolved in child order, and they sum to primary_dim; shares
\* 7.142857 and 2.857143 of 10 cells round to 7 and 3.
C7_LargestRemainder ==
    Divided =>
        /\ ltop.integer_sizes =
              ExactAllocation([i \in 1..Len(Sized) |-> Sized[i].size], lnode.size,
                              PrimaryLen(larea))
        /\ SumSeq(ltop.integer_sizes) = PrimaryLen(larea)
        /\ (ChildSizes(lnode) = <<5 * KiB, 2 * KiB>> /\ PrimaryLen(larea) = 10)
              => ltop.integer_sizes = <<7, 3>>

(***************************************************************************)
(* C8.  The minimum tile and the stop rule.                                *)
(***************************************************************************)
\* The cells child j asks for: its rounded share, 3 when that is below 3.
Wanted(j) == IF ltop.integer_sizes[j] < 3 THEN 3 ELSE ltop.integer_sizes[j]

\* The cells between the end of the first j - 1 placements and the far edge.
CellsLeft(j) ==
    PrimaryLen(larea)
        - SumSeq([i \in 1..(j - 1) |-> PrimaryLen(ltop.placed[i].rect)])

\* C8: in the placement loop a child whose rounded share is below 3 cells
\* gets exactly 3; every child is capped to the cells left before the far
\* edge; at the first child that would get fewer than 3 cells placement
\* stops, so that child and all later siblings have no rectangle, and every
\* child placed before it has a primary length of at least 3.
C8_MinTileAndStop ==
    Divided =>
        LET placed == ltop.placed
            k == Len(placed)
            n == Len(Sized)
        IN /\ k <= n
           /\ \A j \in 1..k :
                 /\ placed[j].idx = j
                 /\ PrimaryLen(placed[j].rect) = Min(Wanted(j), CellsLeft(j))
                 /\ PrimaryLen(placed[j].rect) >= 3
                 /\ ltop.integer_sizes[j] < 3 => PrimaryLen(placed[j].rect) = 3
                 /\ PrimaryPos(placed[j].rect) + CellsLeft(j)
                       = PrimaryPos(larea) + PrimaryLen(larea)
                 /\ SecondaryLen(placed[j].rect) = SecondaryLen(larea)
           /\ k < n => Min(Wanted(k + 1), CellsLeft(k + 1)) < 3
           /\ \A j \in (k + 1)..n : \A i \in 1..Len(lout) :
                 lout[i].node \notin NodesOf(Sized[j])
           /\ \A j \in 1..k : \E i \in 1..Len(lout) : lout[i].node \in NodesOf(Sized[j])

\* A child whose rounded share was below 3 has been placed with 3 cells, and
\* placement stopped at a later child.
C8_Witness ==
    /\ Divided
    /\ Len(ltop.placed) < Len(Sized)
    /\ \E j \in 1..Len(ltop.placed) :
          ltop.integer_sizes[j] < 3 /\ PrimaryLen(ltop.placed[j].rect) = 3

(***************************************************************************)
(* C9.  The flat list tiles the rectangle.                                 *)
(***************************************************************************)
\* C9: for every tree and every rectangle, every cell of the rectangle is
\* covered by exactly one rectangle of the list layout_tree returns, also
\* when placement stopped early.
C9_Tiles ==
    pc = "laid" =>
        \A cell \in Cells(larea) :
            Cardinality({i \in 1..Len(lout) : cell \in Cells(lout[i].rect)}) = 1

(***************************************************************************)
(* C10.  Navigation round trip.                                            *)
(***************************************************************************)
\* The directory at path `to` is one of the children of the node at `from`.
DirectChild(from, to) ==
    /\ find_node(app, from).some
    /\ \E c \in Range(find_node(app, from).v.children) : c.is_dir /\ c.path = to

Holding(self, p) ==
    {i \in 1..Len(self.layout) :
        LET r == self.layout[i].rect
        IN /\ r.x - self.offset_x <= p[1] /\ p[1] < r.x - self.offset_x + r.width
           /\ r.y - self.offset_y <= p[2] /\ p[2] < r.y - self.offset_y + r.height}

\* The screen points that are probed: the mouse position, the points the
\* mouse is taken to, and the corner cells of every cached rectangle after
\* the move, as far as they are points a mouse event can carry.
ProbePoints ==
    LET corners(i) ==
            LET r == app.layout[i].rect
                left == r.x - app.offset_x
                top == r.y - app.offset_y
            IN {left, left + r.width - 1} \X {top, top + r.height - 1}
        all == UNION {corners(i) : i \in 1..Len(app.layout)}
    IN {p \in all : p[1] \in 0..U16Max /\ p[2] \in 0..U16Max}
       \cup {app.mouse_pos}
       \cup (IF pc = "event" THEN MousePoints ELSE {})

\* C11: a screen point resolves to the node of a cached rectangle exactly
\* when the rectangle, moved by the offsets, holds the point: a point that
\* some moved rectangle holds resolves to that rectangle's node, whichever
\* rectangle of the list it is, and a point that no moved rectangle holds
\* resolves to nothing.
C11_HitTest ==
    \A p \in ProbePoints :
        LET hit == get_node_at(app, p[1], p[2])
        IN /\ hit.some <=> Holding(app, p) # {}
           /\ \A i \in Holding(app, p) : hit = Some(app.layout[i].node)

\* The view is scrolled both ways and the mouse has been moved onto a tile
\* that is not the first of the list, which is now selected.
C11_Witness ==
    /\ app.offset_x > 0 /\ app.offset_y > 0
    /\ \E i \in Holding(app, app.mouse_pos) \ {1} :
           /\ app.selected = Some(app.layout[i].node.path)
           /\ get_node_at(app, app.mouse_pos[1], app.mouse_pos[2]) = Some(app.layout[i].node)

(***************************************************************************)
(* C12: mouse moves.                                                       *)
(***************************************************************************)
\* The last step was a mouse move.
MouseHasMoved == pc = "frame" /\ ev.kind = "moved"

\* The last step was a mouse move to a point that no cached rectangle held.
MouseHasMissed == MouseHasMoved /\ Holding(was, ev.at) = {}

Zoomed(self, path) ==
    [self EXCEPT !.current_dir = path, !.offset_x = 0, !.offset_y = 0,
                 !.layout_dirty = TRUE]

IsDirWithChild(n) == n.is_dir /\ Len(n.children) > 0

\* Enter: when something is selected and the selected path is that of a
\* directory of the tree with at least one child, the App is zoomed into it;
\* otherwise the App is as it was.
EnterActivates ==
    pc = "frame" /\ ev.kind = "enter" =>
        IF /\ was.selected.some
           /\ \E n \in NodesOf(was.root) : n.path = was.selected.v /\ IsDirWithChild(n)
        THEN app = Zoomed(was, was.selected.v)
        ELSE app = was

\* The click of the last step was on a tile whose node is a directory with
\* at least one child.
ClickOnDir == \E i \in Holding(was, ev.at) : IsDirWithChild(was.layout[i].node)

\* The App is zoomed into the node under the cursor.
ClickZoomed ==
    \A i \in Holding(was, ev.at) : app = Zoomed(was, was.layout[i].node.path)

\* C13 as stated: Enter activates the selected path; a click without
\* modifiers zooms into the node under the cursor when it is a directory
\* with at least one child and changes nothing otherwise; a click with any
\* modifier held changes nothing.
C13_AnyModifier ==
    /\ EnterActivates
    /\ pc = "frame" /\ ev.kind = "down" =>
           IF ev.modifiers = {} /\ ClickOnDir THEN ClickZoomed ELSE app = was

\* C13, amended: Enter activates the selected path; a click without Ctrl
\* held (no modifier, or another one such as Shift) zooms into the node
\* under the cursor when it is a directory with at least one child and
\* changes nothing otherwise; a click with Ctrl held changes nothing.
C13_ControlOnly ==
    /\ EnterActivates
    /\ pc = "frame" /\ ev.kind = "down" =>
           IF "CONTROL" \notin ev.modifiers /\ ClickOnDir THEN ClickZoomed
           ELSE app = was

\* Enter has zoomed from one directory into another and has put a scrolled
\* view back to the origin.
C13_Witness ==
    /\ pc = "frame" /\ ev.kind = "enter"
    /\ app.current_dir # was.current_dir
    /\ was.offset_x > 0 /\ app.offset_x = 0 /\ app.offset_y = 0
    /\ app.layout_dirty

(***************************************************************************)
(* C14: the layout cache.                                                  *)
(***************************************************************************)
\* A frame has just been drawn.
FrameDrawn == pc = "event" /\ ev.kind = "frame"

\* The view that goes with the terminal of the frame.
ScrollView == term.width < 40 \/ term.height < 20

\* The node current_dir resolves to: the directory of the tree with that
\* path, the root of the tree when there is none.
Resolved(self) ==
    LET dirs == {n \in NodesOf(self.root) : n.is_dir /\ n.path = self.current_dir}
    IN IF dirs = {} THEN self.root ELSE CHOOSE n \in dirs : TRUE

\* The virtual canvas of the scroll view for a node with few children.
Canvas(node) ==
    Rect(0, 0, Min(200 + 5 * Len(node.children), 5000),
               Min(200 + 5 * Len(node.children), 5000))

\* The frame found a reason to recompute the layout.
Stale ==
    \/ was.layout_dirty
    \/ was.last_area_size # <<term.width, term.height>>
    \/ was.scroll_mode # ScrollView

\* The last step was a scroll key or a mouse move.
ScrolledOrMoved ==
    /\ pc = "frame"
    /\ \/ ev.kind = "moved"
       \/ ev.kind = "key" /\ (ev.key # "h" \/ was.scroll_mode)

\* C14: a frame recomputes the cached layout exactly when the terminal size
\* differs from last_area_size, the view of the terminal differs from
\* scroll_mode, or layout_dirty is set; otherwise it leaves the App as it
\* was.  After every frame layout_dirty is false and the cache is a layout
\* of the node current_dir resolves to.  Only a zoom, a navigate-up or a
\* resize event sets layout_dirty; scroll keys and mouse moves leave the
\* cache and everything ensure_layout tests as they were.
C14_LayoutCache ==
    /\ FrameDrawn =>
           /\ ~app.layout_dirty
           /\ app.layout \in {layout_tree(Resolved(app), term, TRUE),
                               layout_tree(Resolved(app), Canvas(Resolved(app)), TRUE)}
           /\ IF Stale
              THEN /\ app.last_area_size = <<term.width, term.height>>
                   /\ app.scroll_mode = ScrollView
                   /\ app.current_dir = was.current_dir
              ELSE app = was
    /\ pc = "frame" /\ app.layout_dirty /\ ~was.layout_dirty =>
           \/ ev.kind \in {"resize", "enter", "down"}
           \/ ev.kind = "key" /\ ev.key = "h" /\ ~was.scroll_mode
    /\ ScrolledOrMoved =>
           /\ app.layout = was.layout
           /\ app.layout_dirty = was.layout_dirty
           /\ app.last_area_size = was.last_area_size
           /\ app.scroll_mode = was.scroll_mode
           /\ app.current_dir = was.current_dir

\* A frame has recomputed a layout that no event had marked dirty, because
\* the terminal had another size.
C14_Witness ==
    /\ FrameDrawn
    /\ ~was.layout_dirty
    /\ was.last_area_size # <<term.width, term.height>>
    /\ app.layout # was.layout
    /\ app.last_area_size = <<term.width, term.height>>

(***************************************************************************)
(* C15: the area the cached layout is computed against.                    *)
(***************************************************************************)
\* C15: whenever a frame is drawn in the scroll view the cached layout is
\* the layout of the current node against the virtual canvas at (0, 0), and
\* whenever a frame is drawn in the Normal view it is the layout of the
\* current node against the terminal area.
C15_ViewLayout ==
    FrameDrawn =>
        app.layout = layout_tree(Resolved(app),
                                 IF ScrollView THEN Canvas(Resolved(app)) ELSE term,
                                 TRUE)

(***************************************************************************)
(* C16: the side of the virtual canvas.                                    *)
(***************************************************************************)
\* C16: for every number n of children the side of the virtual canvas is
\* computed without a panic and equals min(200 + 5 * n, 5000), so that it
\* lies between 200 and 5000.
C16_CanvasSide ==
    pc = "sized" =>
        /\ ~canvas.out.panic
        /\ canvas.out.v = Min(200 + 5 * canvas.len, 5000)
        /\ canvas.out.v \in 200..5000

(***************************************************************************)
(* C17: scroll keys.                                                       *)
(***************************************************************************)
\* A key event has just been handled.
KeyHandled == pc = "frame" /\ ev.kind = "key" /\ "code" \in DOMAIN ev

\* The direction a scroll key goes: left and up are -1, right and down +1.
Heading ==
    [h |-> <<-1, 0>>, H |-> <<-1, 0>>, Left |-> <<-1, 0>>,
     l |-> <<1, 0>>, L |-> <<1, 0>>, Right |-> <<1, 0>>,
     k |-> <<0, -1>>, K |-> <<0, -1>>, Up |-> <<0, -1>>,
     j |-> <<0, 1>>, J |-> <<0, 1>>, Down |-> <<0, 1>>]

\* The offsets after a step of <<cx, cy>> cells per direction, kept within
\* least..most.
Stepped(cells, least, most) ==
    [was EXCEPT !.offset_x = Max(least, Min(most, @ + Heading[ev.code][1] * cells[1])),
                !.offset_y = Max(least, Min(most, @ + Heading[ev.code][2] * cells[2]))]

\* h or Left in the Normal view: to the parent of current_dir, if it has one.
NavigatedUp ==
    IF Len(was.current_dir) = 0 THEN was
    ELSE [was EXCEPT !.current_dir = SubSeq(@, 1, Len(@) - 1),
                     !.offset_x = 0, !.offset_y = 0, !.layout_dirty = TRUE]

NormalViewKey ==
    IF ev.code \in {"h", "Left"} THEN app = NavigatedUp ELSE app = was

\* C17 as stated: in the scroll view a scroll key moves offset_x by 5 or
\* offset_y by 3, its shifted variant by 20 or 10, decrements stopping at 0,
\* and nothing else of the App changes; in the Normal view h and Left
\* navigate up and the other scroll keys change nothing.
C17_ShiftedAndUnbounded ==
    KeyHandled =>
        IF was.scroll_mode
        THEN app = Stepped(IF ev.shift THEN <<20, 10>> ELSE <<5, 3>>, 0, 2 * U16Max)
        ELSE NormalViewKey

\* C17, amended: in the scroll view h, l and the arrows Left, Right move
\* offset_x by 5, k, j and the arrows Up, Down move offset_y by 3, whether
\* or not Shift is held with an arrow; the capitals H, L move offset_x by 20
\* and K, J move offset_y by 10; decrements stop at 0 and increments stop at
\* 65535; nothing else of the App changes.  In the Normal view h and Left
\* navigate up and the other scroll keys change nothing.
C17_CapitalsAndSaturating ==
    KeyHandled =>
        IF was.scroll_mode
        THEN app = Stepped(IF ev.code \in {"H", "J", "K", "L"} THEN <<20, 10>>
                           ELSE <<5, 3>>, 0, U16Max)
        ELSE NormalViewKey

\* In the scroll view K has taken offset_y from 3 to 0 and left offset_x,
\* which is not 0, alone.
C17_Witness ==
    /\ KeyHandled /\ was.scroll_mode
    /\ ev.code = "K"
    /\ was.offset_y = 3 /\ app.offset_y = 0
    /\ was.offset_x = 10 /\ app.offset_x = 10

(***************************************************************************)
(* C18: the terminal at the exit of main.                                  *)
(***************************************************************************)
\* main has returned, with Ok or with the error of one of the calls named
\* by the claim, after raw mode had been enabled.
ExitedAfterRawMode ==
    /\ pc \in {"exit_ok", "exit_err"}
    /\ tty.error \in {"none", "EnterAlternateScreen", "Terminal::new", "terminal.size",
                       "terminal.draw", "event::read"}

\* C18: when main returns after raw mode has been enabled, by the quit key
\* or by an error of entering the alternate screen, of creating the
\* terminal, of querying its size, of drawing a frame or of reading an
\* event, raw mode and the alternate screen are disabled.
C18_TerminalRestored ==
    ExitedAfterRawMode => ~tty.raw_mode /\ ~tty.alternate_screen

(***************************************************************************)
(* C19: the scan and the progress thread.                                  *)
(***************************************************************************)
\* build_tree has returned.
ScanEnded == pc \notin {"spawn", "build_tree"}

\* The progress thread has left its loop, has printed the final summary
\* once and has ended.
Reported == reporter.pc = "exited" /\ reporter.summaries = 1

\* What holds at every moment: the final summary is printed at most once
\* and the loop is left only after done was set; main is past the join only
\* when the progress thread has ended.
HandshakeSafe ==
    /\ reporter.summaries <= 1
    /\ reporter.pc \in {"summary", "exited"} => done
    /\ reporter.summaries = 1 => done /\ reporter.pc = "exited"
    /\ pc = "enable_raw_mode" => Reported

\* C19 as stated: whenever build_tree has returned, done is set and the
\* progress thread then leaves its loop and prints the final summary exactly
\* once, never before done is set; the thread has ended before main goes on
\* to the interactive part.
C19_EveryEnd == [] HandshakeSafe /\ (ScanEnded ~> (done /\ Reported))

\* C19, amended: the same when build_tree has returned Ok; when it has
\* returned an Err, main returns at once, done is never set and no final
\* summary is printed.
C19_OkEnd ==
    /\ [] HandshakeSafe
    /\ (ScanEnded /\ scan.ok) ~> (done /\ Reported /\ pc = "enable_raw_mode")
    /\ [] (pc = "exit_err" => ~scan.ok /\ ~done /\ reporter.summaries = 0)

\* main is past the join; the progress thread has sampled the counter while
\* files were being scanned, has printed the summary and has ended.
C19_Witness ==
    /\ pc = "enable_raw_mode"
    /\ done /\ Reported
    /\ reporter.last_count > 0
    /\ reporter.last_count < scanned_files

(***************************************************************************)
(* C20: the color cache.                                                   *)
(***************************************************************************)
\* The cache a call found: the one the call before it left.
CacheBefore(i) == IF i = 1 THEN <<>> ELSE lookups[i - 1].cache

\* Two extensions are the same string after case folding.
SameFolded(a, b) == a.some /\ b.some /\ to_lowercase(a.v) = to_lowercase(b.v)

\* C20: every lookup returns the color that the first lookup for the same
\* case-folded extension returned; no call changes or removes an entry the
\* cache already had; a lookup for a missing or an empty extension returns
\* Rgb(150, 150, 150) and leaves the cache as it found it.
C20_Memoized ==
    \A i \in 1..Len(lookups) :
        /\ \A j \in 1..(i - 1) :
               SameFolded(lookups[j].ext, lookups[i].ext)
                   => lookups[i].color = lookups[j].color
        /\ \A key \in DOMAIN CacheBefore(i) :
               /\ key \in DOMAIN lookups[i].cache
               /\ lookups[i].cache[key] = CacheBefore(i)[key]
        /\ ~lookups[i].ext.some \/ lookups[i].ext.v = <<>> =>
               /\ lookups[i].color = Rgb(150, 150, 150)
               /\ lookups[i].cache = CacheBefore(i)

\* "rs" was looked up first, then "RS", then nothing: the first two calls
\* returned one color, which is not the gray, and the cache holds one entry.
C20_Witness ==
    /\ Len(lookups) = 3
    /\ lookups[1].ext = Some(<<"r", "s">>)
    /\ lookups[2].ext = Some(<<"R", "S">>)
    /\ lookups[3].ext = None
    /\ lookups[1].color = lookups[2].color
    /\ lookups[1].color # Rgb(150, 150, 150)
    /\ DOMAIN color_cache = {<<"r", "s">>}
    /\ lookups[3].color = Rgb(150, 150, 150)

(***************************************************************************)
(* C21: no tile below 3 cells, no tile outside the rectangle.              *)
(***************************************************************************)
\* The rectangle r lies inside the rectangle a.
Inside(r, a) ==
    /\ a.x <= r.x /\ r.x + r.width <= a.x + a.width
    /\ a.y <= r.y /\ r.y + r.height <= a.y + a.height

\* The nodes below lnode whose size is 0.
ZeroSized == {n \in NodesOf(lnode) \ {lnode} : n.size = 0}

\* layout_tree has returned for a rectangle of at least 3 by 3 cells.
LaidInRoom == pc = "laid" /\ larea.width >= 3 /\ larea.height >= 3

\* C21: when the input rectangle is at least 3 cells wide and 3 cells high,
\* every rectangle of the output is at least 3 cells wide and 3 cells high
\* and lies inside the input rectangle, and no node of size 0 below the
\* input node is paired with a rectangle.
C21_NoFragments ==
    LaidInRoom =>
        \A i \in 1..Len(lout) :
            /\ lout[i].rect.width >= 3 /\ lout[i].rect.height >= 3
            /\ Inside(lout[i].rect, larea)
            /\ lout[i].node \notin ZeroSized

\* A node with a child of size 0 and two sized subdirectories has been laid
\* out: no rectangle starts at the origin row and column alone, one of them
\* is exactly 3 cells long on one side, and the last one was stretched to
\* the far corner of the input rectangle.
C21_Witness ==
    /\ LaidInRoom
    /\ ZeroSized # {}
    /\ Len(lout) >= 3
    /\ \E i \in 1..Len(lout) :
          /\ lout[i].rect.x > 0 /\ lout[i].rect.y > 0
          /\ lout[i].rect.width = 3 \/ lout[i].rect.height = 3
    /\ lout[Len(lout)].rect.x + lout[Len(lout)].rect.width = larea.width
    /\ lout[Len(lout)].rect.y + lout[Len(lout)].rect.height = larea.height

(***************************************************************************)
(* C22: what ui draws for a cached rectangle of the scroll view.           *)
(***************************************************************************)
\* The cells of the rectangle r moved by (-offset_x, -offset_y) that are
\* cells of the view.
VisibleCells(self, view, r) ==
    {p \in Cells(view) :
        /\ r.x - self.offset_x <= p[1] /\ p[1] < r.x - self.offset_x + r.width
        /\ r.y - self.offset_y <= p[2] /\ p[2] < r.y - self.offset_y + r.height}

\* The cells rendered for pair i of the layout.
DrawnCells(i) == IF screen[i].some THEN Cells(screen[i].v) ELSE {}

\* A frame of the scroll view has been drawn.
ScrollFrameDrawn == pc = "event" /\ screen # NotYet /\ app.scroll_mode

\* C22: in the scroll view, the cells ui renders for a cached rectangle are
\* exactly the cells of the rectangle, moved by (-offset_x, -offset_y), that
\* lie in the drawing viewport, and nothing is rendered for it when there is
\* no such cell; so the cells rendered for the rectangle are exactly the
\* cells of the viewport that hit testing resolves to its node.
C22_DrawnIsVisible ==
    ScrollFrameDrawn =>
        \A i \in 1..Len(app.layout) :
            /\ DrawnCells(i) = VisibleCells(app, main_area(term), app.layout[i].rect)
            /\ DrawnCells(i) =
                   {p \in Cells(main_area(term)) :
                       get_node_at(app, p[1], p[2]) = Some(app.layout[i].node)}

(***************************************************************************)
(* C23: current_dir and the scanned tree.                                  *)
(***************************************************************************)
\* C23: whatever events have come, current_dir is the path of a directory
\* node of the scanned tree, so that find_node(current_dir) finds a node and
\* the root is never taken in its place; a navigate-up does not take
\* current_dir above the scanned root.
C23_CurrentDirInTree ==
    /\ find_node(app, app.current_dir).some
    /\ \E n \in NodesOf(app.root) : n.is_dir /\ n.path = app.current_dir
    /\ Len(app.current_dir) >= Len(app.root.path)

(***************************************************************************)
(* C24: the offsets of the Normal view.                                    *)
(***************************************************************************)
\* A frame has been laid out for the Normal view: ensure_layout has run and
\* has left scroll_mode false.
NormalFrame == pc = "event" /\ ~app.scroll_mode

\* C24: whenever a frame has been laid out for the Normal view, offset_x and
\* offset_y are 0, so that a screen point resolves to the node of the cached
\* rectangle that holds it untranslated, which is where ui draws it; also
\* when the frame follows a resize from the scroll view.
C24_NormalViewUnscrolled ==
    NormalFrame =>
        /\ app.offset_x = 0 /\ app.offset_y = 0
        /\ \A p \in ProbePoints :
               get_node_at(app, p[1], p[2]) = GetNodeAtUnscrolled(app, p[1], p[2])

(***************************************************************************)
(* C25: activations and the tile under the mouse.                          *)
(***************************************************************************)
\* The last step was an activation: Enter, or a click without modifiers.
ActivationHandled ==
    /\ pc = "frame"
    /\ ev.kind = "enter" \/ (ev.kind = "down" /\ ev.modifiers = {})

\* The cached rectangles under the mouse at the activation: under the last
\* mouse position for Enter, under the click for a click.
UnderMouse == Holding(was, IF ev.kind = "enter" THEN was.mouse_pos ELSE ev.at)

\* C25: an activation changes current_dir only when the tile under the mouse
\* is the tile of a directory node; Enter with a file tile or an "Other"
\* tile under the mouse leaves current_dir as it was, as a click without
\* modifiers on that tile does.
C25_ActivationOnDirTile ==
    ActivationHandled =>
        /\ app.current_dir # was.current_dir
               => \E i \in UnderMouse : was.layout[i].node.is_dir
        /\ (\E i \in UnderMouse : ~was.layout[i].node.is_dir)
               => app.current_dir = was.current_dir

(***************************************************************************)
(* C26: the nodes that are paired with rectangles.                         *)
(***************************************************************************)
\* The node has a child of nonzero size.
HasSizedChild(n) == \E c \in Range(n.children) : c.size > 0

\* The tree satisfies the size invariant: the size of a directory is the sum
\* of the sizes of its children.
SizesAddUp(node) == \A n \in NodesOf(node) : n.is_dir => n.size = SumSeq(ChildSizes(n))

\* C26: for a tree that satisfies the size invariant and a rectangle at
\* least 3 cells wide and 3 cells high, no node paired with a rectangle in
\* the output has a child of nonzero size: a node with such a child is not
\* in the list itself, and when the input node has one, the list holds only
\* nodes below it, among them a node of its first sized child.
C26_OnlyLeaves ==
    (LaidInRoom /\ SizesAddUp(lnode)) =>
        /\ \A i \in 1..Len(lout) : ~HasSizedChild(lout[i].node)
        /\ \A n \in NodesOf(lnode) :
               HasSizedChild(n) => \A i \in 1..Len(lout) : lout[i].node # n
        /\ IF HasSizedChild(lnode)
           THEN /\ \A i \in 1..Len(lout) : lout[i].node \in NodesOf(lnode) \ {lnode}
                /\ lout[1].node \in NodesOf(Sized[1])
           ELSE lout = <<[rect |-> larea, node |-> lnode]>>

\* A subdirectory with two sized children has been placed: it is not in the
\* list, and both of its children are, beside a leaf of the input node.
C26_Witness ==
    /\ LaidInRoom /\ SizesAddUp(lnode)
    /\ \E c \in Range(lnode.children) :
          /\ c.is_dir /\ Len(c.children) = 2 /\ HasSizedChild(c)
          /\ \A i \in 1..Len(lout) : lout[i].node # c
          /\ \A g \in Range(c.children) : \E i \in 1..Len(lout) : lout[i].node = g
    /\ \E i \in 1..Len(lout) : lout[i].node \in Range(lnode.children)

====
